---------------------------- MODULE Spec2Model ----------------------------
(***************************************************************************)
(* Model of the final-announcement pipeline of wras-dhh                    *)
(* (src/api/routes/final_announcement.py): the segmentation of a template  *)
(* text, the catalog lookups, the audio concatenation, and the background  *)
(* generation job with its in-memory progress dictionary.                  *)
(*                                                                         *)
(* Texts are sequences of characters.  A character is an atom: "{", "}"    *)
(* and " " are the three characters the code treats specially (the regex   *)
(* and str.strip); every other atom stands for a run of ordinary           *)
(* characters (a word such as "Train", an identifier such as               *)
(* "train_number", a digit).  Offsets are 0-based as in Python.            *)
(***************************************************************************)
EXTENDS Integers, Sequences, FiniteSets, TLC

VARIABLES
    audio_files,    \* the audio_files table: AudioFile rows in id order
    segments,       \* the announcement_audio_segments table, in id order
    templates,      \* the announcement_templates table, in id order
    files,          \* the files under /var/www/audio_files: path -> content
    seg_text,       \* segmentation: the template text under test
    seg_out,        \* segmentation: the result of the run
    ph_in,          \* placeholder lookup: [placeholder, value, language]
    ph_out,         \* placeholder lookup: the result of the call
    cl_in,          \* clip list: [template_id, language, train_data]
    cl_out,         \* clip list: the audio_paths built by the loop
    cc_in,          \* concatenation: [audio_paths, output_path]
    cc_out,         \* concatenation: the value returned
    generation_progress,    \* the global progress dictionary: key -> entry
    now,            \* the wall clock, in seconds
    task,           \* the background tasks: arguments and local variables
    pc,             \* the background tasks: where each one is in its code
    response,       \* the HTTP response being sent, or NotRun
    vid_in,         \* sign video: [dataset, text, now, ffmpeg_ok]
    vid_out,        \* sign video: what the call returned or raised
    pub_dirs,       \* publisher: the candidate directories that can be written
    pub_pages,      \* publisher: the pages on disk, path -> the call that wrote it
    pub_log,        \* publisher: what each publish call so far returned
    cln_dir,        \* cleanup: /var/www/publish_isl, [exists, entries]
    cln_in,         \* cleanup: the directory as the call found it
    cln_out,        \* cleanup: the response of the call
    dup_call,       \* creation: the request being answered, numbered
    background_tasks,   \* creation: the tasks added with add_task so far
    svc_log,        \* collaborators: the calls answered, each with its outcome
    tx_in,          \* text lookup: [text, language, template_id]
    tx_out,         \* text lookup: the path returned
    read_log,       \* reads: the rows each read or generation run so far used
    tasks_run,      \* background tasks: position -> where the started task is
    clearing        \* clear-all: the files the call under way has still to remove

None == "None"      \* a None attribute of a progress entry
NoText == <<>>      \* a NULL or empty text: every use treats the two alike
NoPath == <<>>      \* a NULL or empty audio path: every use treats the two alike
NotRun == [done |-> FALSE]

(***************************************************************************)
(* Bounds of the model.                                                    *)
(***************************************************************************)
MaxLen == 6         \* longest template text enumerated character by character
MaxDigits == 3      \* longest train or platform number
MaxPaths == 3       \* longest list handed to concatenate_audio_files
MaxJobs == 2        \* generate requests accepted in one run
MaxClock == 1       \* seconds the clock advances in one run
MaxWords == 5       \* longest announcement text, in words and spaces
MaxCalls == 2       \* publish calls in one run
MaxFiles == 3       \* entries of the directory that is cleaned up

(***************************************************************************)
(* Python string helpers.                                                  *)
(***************************************************************************)
IsSpace(c) == c = " "

\* s[a:b] for 0 <= a, b <= len(s)
Slice(s, a, b) == SubSeq(s, a + 1, b)

\* str.strip(): drop the whitespace at both ends
Strip(s) ==
    LET keep == {i \in 1..Len(s) : ~IsSpace(s[i])}
    IN  IF keep = {} THEN <<>>
        ELSE LET lo == CHOOSE i \in keep : \A k \in keep : i <= k
                 hi == CHOOSE i \in keep : \A k \in keep : i >= k
             IN  SubSeq(s, lo, hi)

\* the characters of a text as one string
RECURSIVE JoinAtoms(_)
JoinAtoms(text) == IF text = <<>> THEN "" ELSE Head(text) \o JoinAtoms(Tail(text))

\* str.strip('{}'): drop the braces at both ends
StripBraces(s) ==
    LET keep == {i \in 1..Len(s) : s[i] \notin {"{", "}"}}
    IN  IF keep = {} THEN <<>>
        ELSE LET lo == CHOOSE i \in keep : \A k \in keep : i <= k
                 hi == CHOOSE i \in keep : \A k \in keep : i >= k
             IN  SubSeq(s, lo, hi)

(***************************************************************************)
(* The regular expression \{([^}]+)\} .                                     *)
(***************************************************************************)
\* the offset of the first "}" after offset i, or -1
NextClose(text, i) ==
    LET closes == {k \in (i + 1)..(Len(text) - 1) : text[k + 1] = "}"}
    IN  IF closes = {} THEN -1
        ELSE CHOOSE k \in closes : \A m \in closes : k <= m

\* a match starts at offset i: "{", one or more characters other than "}", "}"
MatchAt(text, i) ==
    /\ i < Len(text)
    /\ text[i + 1] = "{"
    /\ NextClose(text, i) >= i + 2

\* re.finditer from offset p: leftmost non-overlapping matches, each recorded as
\* the code records it: group(1).strip(), match.start(), match.end()
RECURSIVE FindIter(_, _)
FindIter(text, p) ==
    LET starts == {i \in p..(Len(text) - 1) : MatchAt(text, i)}
    IN  IF starts = {} THEN <<>>
        ELSE LET i == CHOOSE k \in starts : \A m \in starts : k <= m
                 j == NextClose(text, i)
             IN  << [placeholder |-> Strip(Slice(text, i + 1, j)),
                     start |-> i, end |-> j + 1] >>
                 \o FindIter(text, j + 1)

\* re.findall: the group(1) of every match, unstripped
RECURSIVE FindAll(_, _)
FindAll(text, p) ==
    LET starts == {i \in p..(Len(text) - 1) : MatchAt(text, i)}
    IN  IF starts = {} THEN <<>>
        ELSE LET i == CHOOSE k \in starts : \A m \in starts : k <= m
                 j == NextClose(text, i)
             IN  << Slice(text, i + 1, j) >> \o FindAll(text, j + 1)

\* list.sort(key=lambda x: x['start']): a stable sort on start
RECURSIVE SortByStart(_)
SortByStart(ps) ==
    IF ps = <<>> THEN <<>>
    ELSE LET i == CHOOSE k \in 1..Len(ps) :
                    /\ \A m \in 1..Len(ps) : ps[k].start <= ps[m].start
                    /\ \A m \in 1..(k - 1) : ps[m].start # ps[k].start
             rest == SubSeq(ps, 1, i - 1) \o SubSeq(ps, i + 1, Len(ps))
         IN  <<ps[i]>> \o SortByStart(rest)

\* placeholder_positions after the sort
PlaceholderPositions(text) == SortByStart(FindIter(text, 0))

(***************************************************************************)
(* The segmentation made by the generation loop: for every placeholder the *)
(* stripped literal run before it (when not empty) and the placeholder     *)
(* token, then the stripped trailing run (when not empty).                 *)
(***************************************************************************)
Literal(v) == [kind |-> "literal", value |-> v]
Token(key) == [kind |-> "placeholder", value |-> <<"{">> \o key \o <<"}">>]

\* the loop with a stale position: current_pos left at the placeholder's start
RECURSIVE SegmentLoopStalePos(_, _, _)
SegmentLoopStalePos(text, positions, current_pos) ==
    IF positions = <<>>
    THEN LET text_after == Strip(Slice(text, current_pos, Len(text)))
         IN  IF text_after # <<>> THEN <<Literal(text_after)>> ELSE <<>>
    ELSE LET info == Head(positions)
             text_before == Strip(Slice(text, current_pos, info.start))
         IN  (IF text_before # <<>> THEN <<Literal(text_before)>> ELSE <<>>)
             \o <<Token(info.placeholder)>>
             \o SegmentLoopStalePos(text, Tail(positions), info.start)

RECURSIVE SegmentLoop(_, _, _)
SegmentLoop(text, positions, current_pos) ==
    IF positions = <<>>
    THEN LET text_after == Strip(Slice(text, current_pos, Len(text)))
         IN  IF text_after # <<>> THEN <<Literal(text_after)>> ELSE <<>>
    ELSE LET info == Head(positions)
             text_before == Strip(Slice(text, current_pos, info.start))
         IN  (IF text_before # <<>> THEN <<Literal(text_before)>> ELSE <<>>)
             \o <<Token(info.placeholder)>>
             \o SegmentLoop(text, Tail(positions), info.end)

Segments(text) == SegmentLoop(text, PlaceholderPositions(text), 0)


\* split_text_into_segments: re.split on the placeholders, then the stripped
\* pieces that are not empty
RECURSIVE SplitPieces(_, _, _)
SplitPieces(text, positions, current_pos) ==
    IF positions = <<>> THEN <<Slice(text, current_pos, Len(text))>>
    ELSE <<Slice(text, current_pos, Head(positions).start)>>
         \o SplitPieces(text, Tail(positions), Head(positions).end)

split_text_into_segments(text) ==
    LET pieces == SplitPieces(text, FindIter(text, 0), 0)
        kept == SelectSeq(pieces, LAMBDA p : Strip(p) # <<>>)
    IN  [i \in 1..Len(kept) |-> Strip(kept[i])]

(***************************************************************************)
(* The catalog: rows of AudioFile and of AnnouncementAudioSegment.         *)
(***************************************************************************)
Languages == {"english", "marathi", "hindi", "gujarati"}

\* getattr(AudioFile, audio_column) with language_column_map[language]
AudioColumn(row, language) ==
    CASE language = "english"  -> row.english_audio_path
      [] language = "marathi"  -> row.marathi_audio_path
      [] language = "hindi"    -> row.hindi_audio_path
      [] language = "gujarati" -> row.gujarati_audio_path

\* getattr(AudioFile, text_column) with language_column_map[language]
TextColumn(row, language) ==
    CASE language = "english"  -> row.english_text
      [] language = "marathi"  -> row.marathi_translation
      [] language = "hindi"    -> row.hindi_translation
      [] language = "gujarati" -> row.gujarati_translation

\* query.first(): the id of the first of the rows that pass the filter (hits),
\* in id order; NoRow for Python's None
NoRow == 0

FirstRow(hits) ==
    IF hits = {} THEN NoRow ELSE CHOOSE i \in hits : \A k \in hits : i <= k

\* column.contains(t): t occurs in s as a contiguous run
Contains(s, t) ==
    \E a \in 0..(Len(s) - Len(t)) : SubSeq(s, a + 1, a + Len(t)) = t

\* 'name' in placeholder_clean.lower(), for the identifiers of the train data
Mentions(placeholder_clean, name) ==
    \E i \in 1..Len(placeholder_clean) :
        CASE name = "train_number"    -> placeholder_clean[i] = "train_number"
          [] name = "platform_number" -> placeholder_clean[i] = "platform_number"
          [] name = "train_name"      -> placeholder_clean[i] = "train_name"
          [] name = "station"         ->
                placeholder_clean[i] \in {"start_station_name", "end_station_name"}

Digits == {"0", "1", "2", "3", "4", "5", "6", "7", "8", "9"}

\* str.isdigit()
IsDigit(value) == value # <<>> /\ \A i \in 1..Len(value) : value[i] \in Digits

\* digit_to_word.get(digit, digit)
DigitToWord(digit) ==
    CASE digit = "0" -> "zero"  [] digit = "1" -> "one"   [] digit = "2" -> "two"
      [] digit = "3" -> "three" [] digit = "4" -> "four"  [] digit = "5" -> "five"
      [] digit = "6" -> "six"   [] digit = "7" -> "seven" [] digit = "8" -> "eight"
      [] digit = "9" -> "nine"  [] OTHER -> digit

\* str.split(): the runs between whitespace
RECURSIVE Split(_)
Split(s) ==
    LET t == Strip(s)
    IN  IF t = <<>> THEN <<>>
        ELSE LET spaces == {i \in 1..Len(t) : IsSpace(t[i])}
             IN  IF spaces = {} THEN <<t>>
                 ELSE LET i == CHOOSE k \in spaces : \A m \in spaces : k <= m
                      IN  <<SubSeq(t, 1, i - 1)>> \o Split(SubSeq(t, i + 1, Len(t)))

\* the active AudioFile row whose english_text is text, with audio in language
ExactAudioFile(text, language) ==
    FirstRow({i \in 1..Len(audio_files) :
                 /\ audio_files[i].english_text = text
                 /\ AudioColumn(audio_files[i], language) # NoPath
                 /\ audio_files[i].is_active})

\* the loop over the digits (lines 157-171, 192-206) and over the words of a
\* train name (lines 264-277): the clip of every unit that has one
RECURSIVE UnitPaths(_, _)
UnitPaths(units, language) ==
    IF units = <<>> THEN <<>>
    ELSE LET audio_file == ExactAudioFile(Head(units), language)
         IN  (IF audio_file # NoRow
              THEN <<AudioColumn(audio_files[audio_file], language)>> ELSE <<>>)
             \o UnitPaths(Tail(units), language)

DigitWords(value) == [i \in 1..Len(value) |-> <<DigitToWord(value[i])>>]

get_existing_audio_for_placeholder(placeholder, value, language) ==
    LET placeholder_clean == StripBraces(placeholder)
    IN  IF language \notin Languages THEN <<>>
        ELSE IF Mentions(placeholder_clean, "train_number") /\ IsDigit(value)
        THEN UnitPaths(DigitWords(value), language)
        ELSE IF Mentions(placeholder_clean, "platform_number") /\ IsDigit(value)
        THEN UnitPaths(DigitWords(value), language)
        ELSE LET exact == ExactAudioFile(value, language)
             IN  IF exact # NoRow
                 THEN <<AudioColumn(audio_files[exact], language)>>
                 ELSE IF Mentions(placeholder_clean, "station")
                 THEN LET partial ==
                            FirstRow({i \in 1..Len(audio_files) :
                                /\ Contains(audio_files[i].english_text, value)
                                /\ AudioColumn(audio_files[i], language) # NoPath
                                /\ audio_files[i].is_active})
                      IN  IF partial # NoRow
                          THEN <<AudioColumn(audio_files[partial], language)>>
                          ELSE <<>>
                 ELSE IF Mentions(placeholder_clean, "train_name")
                 THEN UnitPaths(Split(value), language)
                 ELSE <<>>

\* the lookup with the catalog asked before the segments of the template
get_existing_audio_for_text_catalog_first(text, language, template_id) ==
    LET audio_file == FirstRow({i \in 1..Len(audio_files) :
                    /\ TextColumn(audio_files[i], language) = Strip(text)
                    /\ AudioColumn(audio_files[i], language) # NoPath
                    /\ audio_files[i].is_active})
        segment == FirstRow({i \in 1..Len(segments) :
                    /\ segments[i].template_id = template_id
                    /\ Contains(segments[i].segment_text, Strip(text))
                    /\ segments[i].language = language
                    /\ segments[i].audio_path # NoPath
                    /\ segments[i].is_active})
    IN  IF Strip(text) = <<>> \/ language \notin Languages THEN NoPath
        ELSE IF audio_file # NoRow
        THEN AudioColumn(audio_files[audio_file], language)
        ELSE IF segment # NoRow THEN segments[segment].audio_path
        ELSE NoPath

\* get_existing_audio_for_text: the template's own segments by exact text, then
\* by contained text, then the AudioFile table on the language's text column
get_existing_audio_for_text(text, language, template_id) ==
    IF Strip(text) = <<>> THEN NoPath
    ELSE IF language \notin Languages THEN NoPath
    ELSE
    LET exact == FirstRow({i \in 1..Len(segments) :
                    /\ segments[i].template_id = template_id
                    /\ segments[i].segment_text = Strip(text)
                    /\ segments[i].language = language
                    /\ segments[i].audio_path # NoPath
                    /\ segments[i].is_active})
        partial == FirstRow({i \in 1..Len(segments) :
                    /\ segments[i].template_id = template_id
                    /\ Contains(segments[i].segment_text, Strip(text))
                    /\ segments[i].language = language
                    /\ segments[i].audio_path # NoPath
                    /\ segments[i].is_active})
        audio_file == FirstRow({i \in 1..Len(audio_files) :
                    /\ TextColumn(audio_files[i], language) = Strip(text)
                    /\ AudioColumn(audio_files[i], language) # NoPath
                    /\ audio_files[i].is_active})
    IN  IF exact # NoRow THEN segments[exact].audio_path
        ELSE IF partial # NoRow THEN segments[partial].audio_path
        ELSE IF audio_file # NoRow
             THEN AudioColumn(audio_files[audio_file], language)
        ELSE NoPath

(***************************************************************************)
(* concatenate_audio_files.  A file is [loadable, audio]: whether          *)
(* AudioSegment.from_mp3 can load it, and the clips it plays in order.     *)
(***************************************************************************)
audio_dir == <<"/var/www/audio_files">>

\* os.path.join(audio_dir, audio_path.replace('/audio_files/', ''))
OnDisk(audio_path) ==
    audio_dir \o SelectSeq(audio_path, LAMBDA c : c # "/audio_files/")

\* the list taken as it is, empty entries included
ValidPathsUnfiltered(audio_paths) == audio_paths

\* valid_paths = [path for path in audio_paths if path]
ValidPaths(audio_paths) == SelectSeq(audio_paths, LAMBDA p : p # NoPath)

Exists(fs, path) == path \in DOMAIN fs

\* the loop with each loaded file put before the audio combined so far
RECURSIVE AppendRestPrepending(_, _, _)
AppendRestPrepending(fs, rest, combined_audio) ==
    IF rest = <<>> THEN [raised |-> FALSE, audio |-> combined_audio]
    ELSE LET file_path == OnDisk(Head(rest))
         IN  IF Exists(fs, file_path)
             THEN IF fs[file_path].loadable
                  THEN AppendRestPrepending(fs, Tail(rest),
                                            fs[file_path].audio \o combined_audio)
                  ELSE [raised |-> TRUE, audio |-> combined_audio]
             ELSE AppendRestPrepending(fs, Tail(rest), combined_audio)

\* the loop over valid_paths[1:]: a file that does not exist is skipped, a file
\* that exists is loaded and appended; a load that raises ends the call
RECURSIVE AppendRest(_, _, _)
AppendRest(fs, rest, combined_audio) ==
    IF rest = <<>> THEN [raised |-> FALSE, audio |-> combined_audio]
    ELSE LET file_path == OnDisk(Head(rest))
         IN  IF Exists(fs, file_path)
             THEN IF fs[file_path].loadable
                  THEN AppendRest(fs, Tail(rest),
                                  combined_audio \o fs[file_path].audio)
                  ELSE [raised |-> TRUE, audio |-> combined_audio]
             ELSE AppendRest(fs, Tail(rest), combined_audio)

\* the value returned and the files afterwards
concatenate_audio_files(fs, audio_paths, output_path) ==
    LET valid_paths == ValidPaths(audio_paths)
        failed == [ok |-> FALSE, files |-> fs]
    IN  IF audio_paths = <<>> THEN failed
        ELSE IF valid_paths = <<>> THEN failed
        ELSE LET first_file_path == OnDisk(valid_paths[1])
             IN  IF ~Exists(fs, first_file_path) THEN failed
                 ELSE IF ~fs[first_file_path].loadable THEN failed
                 ELSE LET rest == AppendRest(fs, Tail(valid_paths),
                                             fs[first_file_path].audio)
                      IN  IF rest.raised THEN failed
                          ELSE [ok |-> TRUE,
                                files |-> [p \in DOMAIN fs \cup {output_path} |->
                                    IF p = output_path
                                    THEN [loadable |-> TRUE, audio |-> rest.audio]
                                    ELSE fs[p]]]

(***************************************************************************)
(* The generation loop for one language (lines 413-508).                   *)
(***************************************************************************)
\* getattr(template, f"{language}_text", template.english_text): the attribute
\* exists for the four languages, so the default is never used
TemplateText(template, language) ==
    CASE language = "english"  -> template.english_text
      [] language = "marathi"  -> template.marathi_text
      [] language = "hindi"    -> template.hindi_text
      [] language = "gujarati" -> template.gujarati_text

\* the clips of the literal run before a placeholder, or after the last one
TextPaths(text, language, template_id) ==
    IF text # <<>>
    THEN LET text_audio_path ==
                 get_existing_audio_for_text(text, language, template_id)
         IN  IF text_audio_path # NoPath THEN <<text_audio_path>> ELSE <<>>
    ELSE <<>>

\* the clips of a placeholder: those of its value in train_data, when it has one
PlaceholderPaths(placeholder_key, language, train_data) ==
    IF JoinAtoms(placeholder_key) \in DOMAIN train_data
    THEN get_existing_audio_for_placeholder(
             <<"{">> \o placeholder_key \o <<"}">>,
             train_data[JoinAtoms(placeholder_key)], language)
    ELSE <<>>

\* the loop with the placeholder's clips added before those of the text before it
RECURSIVE AudioPathsLoopSwapped(_, _, _, _, _, _)
AudioPathsLoopSwapped(text, positions, current_pos, language, template_id, train_data) ==
    IF positions = <<>>
    THEN TextPaths(Strip(Slice(text, current_pos, Len(text))), language, template_id)
    ELSE LET info == Head(positions)
             text_before == Strip(Slice(text, current_pos, info.start))
         IN  PlaceholderPaths(info.placeholder, language, train_data)
             \o TextPaths(text_before, language, template_id)
             \o AudioPathsLoopSwapped(text, Tail(positions), info.end,
                                      language, template_id, train_data)

RECURSIVE AudioPathsLoop(_, _, _, _, _, _)
AudioPathsLoop(text, positions, current_pos, language, template_id, train_data) ==
    IF positions = <<>>
    THEN TextPaths(Strip(Slice(text, current_pos, Len(text))), language, template_id)
    ELSE LET info == Head(positions)
             text_before == Strip(Slice(text, current_pos, info.start))
         IN  TextPaths(text_before, language, template_id)
             \o PlaceholderPaths(info.placeholder, language, train_data)
             \o AudioPathsLoop(text, Tail(positions), info.end,
                               language, template_id, train_data)

\* audio_paths for a template text
AudioPaths(template_text, language, template_id, train_data) ==
    AudioPathsLoop(template_text, PlaceholderPositions(template_text), 0,
                   language, template_id, train_data)

(***************************************************************************)
(* generate_final_announcement_audio_background (lines 358-572).           *)
(***************************************************************************)
\* languages = ['english', 'marathi', 'hindi', 'gujarati']
languages == <<"english", "marathi", "hindi", "gujarati">>

\* the merge order taken from the generation loop
sequence_languages_as_generated == <<"english", "marathi", "hindi", "gujarati">>

\* sequence_languages = ['english', 'hindi', 'marathi', 'gujarati']
sequence_languages == <<"english", "hindi", "marathi", "gujarati">>

\* f"{template_id}_{train_data.get('train_number', 'unknown')}"
GenerationKey(template_id, train_data) ==
    ToString(template_id) \o "_"
        \o (IF "train_number" \in DOMAIN train_data
            THEN JoinAtoms(train_data["train_number"]) ELSE "unknown")

\* datetime.now().strftime('%Y%m%d_%H%M%S'): the clock to the second
Timestamp(t) == ToString(t)

\* f"final_announcement_{template.category}_{language}_{timestamp}_{template_id}.mp3"
OutputFilename(category, language, timestamp, template_id) ==
    "final_announcement_" \o category \o "_" \o language \o "_" \o timestamp
        \o "_" \o ToString(template_id) \o ".mp3"

\* f"merged_announcement_{train_data.get('train_number', 'unknown')}_{template.category}_{timestamp}.mp3"
MergedFilename(train_data, category, timestamp) ==
    "merged_announcement_"
        \o (IF "train_number" \in DOMAIN train_data
            THEN JoinAtoms(train_data["train_number"]) ELSE "unknown")
        \o "_" \o category \o "_" \o timestamp \o ".mp3"

\* the entry a task starts with (lines 368-376)
InitialProgress ==
    [ status |-> "starting",
      current_language |-> "",
      total_languages |-> 4,
      completed_languages |-> 0,
      final_audio_files |-> <<>>,
      merged_audio_path |-> NoPath,
      error |-> None ]

\* f"Only {len(final_audio_files)} out of 4 language files generated"
OnlySomeMessage(n) == "Only " \o ToString(n) \o " out of 4 language files generated"

\* one pass of the loop body for a language (lines 413-508): whether the
\* language got an output, its entry of final_audio_files, the files afterwards
ProcessLanguage(fs, template, language, timestamp, template_id, train_data) ==
    LET template_text == TemplateText(template, language)
        nothing == [produced |-> FALSE, files |-> fs]
    IN  IF template_text = NoText THEN nothing
        ELSE LET audio_paths == AudioPaths(template_text, language, template_id,
                                           train_data)
                 output_filename == OutputFilename(template.category, language,
                                                   timestamp, template_id)
                 output_path == audio_dir \o <<"final_announcements", output_filename>>
                 r == concatenate_audio_files(fs, audio_paths, output_path)
             IN  IF audio_paths = <<>> THEN nothing
                 ELSE IF ~r.ok THEN nothing
                 ELSE [ produced |-> TRUE,
                        entry |-> [ audio_path |-> << "/audio_files/",
                                                      "final_announcements",
                                                      output_filename >>,
                                    segments_used |-> Len(audio_paths) ],
                        files |-> r.files ]

\* audio_files_to_merge (lines 531-541), from position k of sequence_languages
RECURSIVE FilesToMerge(_, _)
FilesToMerge(final_audio_files, k) ==
    IF k > Len(sequence_languages) THEN <<>>
    ELSE (IF sequence_languages[k] \in DOMAIN final_audio_files
          THEN <<final_audio_files[sequence_languages[k]].audio_path>> ELSE <<>>)
         \o FilesToMerge(final_audio_files, k + 1)

audio_files_to_merge(final_audio_files) == FilesToMerge(final_audio_files, 1)

(***************************************************************************)
(* Specification of the segmentation: a text is drawn, the loop runs.      *)
(***************************************************************************)
Chars == {"a", " ", "{", "}"}

RECURSIVE SeqsUpTo(_, _)
SeqsUpTo(S, n) ==
    IF n = 0 THEN {<<>>}
    ELSE LET shorter == SeqsUpTo(S, n - 1)
         IN  shorter \cup {Append(s, c) : s \in shorter, c \in S}

ScenarioText ==
    << "Train", " ", "{", "train_number", "}", " ", "arriving at platform",
       " ", "{", "platform_number", "}" >>

SegTexts == SeqsUpTo(Chars, MaxLen) \cup {ScenarioText}

dbVars == <<audio_files, segments, templates>>
segVars == <<seg_text, seg_out>>
phVars == <<ph_in, ph_out>>
clVars == <<cl_in, cl_out>>
ccVars == <<cc_in, cc_out>>
jobVars == <<generation_progress, now, task, pc, response>>
coreVars == <<dbVars, files, segVars, phVars, clVars, ccVars, jobVars>>
vidVars == <<vid_in, vid_out>>
pubVars == <<pub_dirs, pub_pages, pub_log>>
clnVars == <<cln_dir, cln_in, cln_out>>
dupVars == <<dup_call, background_tasks>>
txVars == <<tx_in, tx_out>>
lastVars == <<txVars, read_log, tasks_run, clearing>>
laterVars == <<dupVars, svc_log, lastVars>>
extVars == <<vidVars, pubVars, clnVars, laterVars>>
pureVars == <<segVars, phVars, clVars, ccVars, extVars>>
vars == <<dbVars, files, pureVars, jobVars>>

\* the variables of the other specifications, at rest
NoCatalog == audio_files = <<>> /\ segments = <<>> /\ templates = <<>>
NoFiles == files = <<>>
SegIdle == seg_text = <<>> /\ seg_out = NotRun
PhIdle == ph_in = NotRun /\ ph_out = NotRun
ClIdle == cl_in = NotRun /\ cl_out = NotRun
CcIdle == cc_in = NotRun /\ cc_out = NotRun
JobIdle ==
    generation_progress = <<>> /\ now = 0 /\ task = <<>> /\ pc = <<>>
    /\ response = NotRun

CoreIdle == NoCatalog /\ NoFiles /\ SegIdle /\ PhIdle /\ ClIdle /\ CcIdle /\ JobIdle

\* the variables of every later specification but the named one, at rest
ExtIdle(group) ==
    /\ (group = "vid" \/ (vid_in = NotRun /\ vid_out = NotRun))
    /\ (group = "pub" \/ (pub_dirs = {} /\ pub_pages = <<>> /\ pub_log = <<>>))
    /\ (group = "cln" \/ (cln_dir = NotRun /\ cln_in = NotRun /\ cln_out = NotRun))
    /\ (group = "dup" \/ (dup_call = NotRun /\ background_tasks = <<>>))
    /\ (group = "svc" \/ svc_log = <<>>)
    /\ (group = "tx" \/ (tx_in = NotRun /\ tx_out = NotRun))
    /\ read_log = <<>> /\ tasks_run = <<>> /\ clearing = NotRun

SegInit ==
    /\ seg_text \in SegTexts
    /\ seg_out = NotRun
    /\ NoCatalog /\ NoFiles /\ PhIdle /\ ClIdle /\ CcIdle /\ JobIdle /\ ExtIdle("")

RunSegmenter ==
    /\ ~seg_out.done
    /\ seg_out' = [done |-> TRUE, segments |-> Segments(seg_text),
                   placeholders |-> FindAll(seg_text, 0),
                   positions |-> PlaceholderPositions(seg_text)]
    /\ UNCHANGED <<dbVars, files, seg_text, phVars, clVars, ccVars, jobVars, extVars>>

SegNext == RunSegmenter

SegSpec == SegInit /\ [][SegNext]_vars

(***************************************************************************)
(* Catalog contents for the specifications below.                          *)
(***************************************************************************)
Identifiers ==
    { "train_number", "platform_number", "train_name", "start_station_name",
      "end_station_name", "via" }

\* a text in another language: every word translated, placeholders kept
Translated(text, language) ==
    [i \in 1..Len(text) |->
        IF text[i] \in {" ", "{", "}"} \cup Identifiers \/ language = "english"
        THEN text[i] ELSE text[i] \o "@" \o language]

\* audio paths are kept by component: "/audio_files/" and what follows it
ClipPath(text, language) ==
    <<"/audio_files/", JoinAtoms(text) \o "_" \o language \o ".mp3">>

\* an AudioFile row for an English text, with audio in the languages of have
AudioFileRow(text, have, active) ==
    [ english_text |-> text,
      english_translation |-> text,
      marathi_translation |-> Translated(text, "marathi"),
      hindi_translation |-> Translated(text, "hindi"),
      gujarati_translation |-> Translated(text, "gujarati"),
      english_audio_path |->
          IF "english" \in have THEN ClipPath(text, "english") ELSE NoPath,
      marathi_audio_path |->
          IF "marathi" \in have THEN ClipPath(text, "marathi") ELSE NoPath,
      hindi_audio_path |->
          IF "hindi" \in have THEN ClipPath(text, "hindi") ELSE NoPath,
      gujarati_audio_path |->
          IF "gujarati" \in have THEN ClipPath(text, "gujarati") ELSE NoPath,
      is_active |-> active ]

\* which languages a row has audio in: English, and the three others together
HaveSets == {{}, {"english"}, Languages \ {"english"}, Languages}

(***************************************************************************)
(* Specification of the placeholder lookup: a catalog of digit words, a    *)
(* numeric placeholder and a language are drawn, the function is called.   *)
(***************************************************************************)
PhDigits == {"1", "2"}

RECURSIVE NonEmptySeqsUpTo(_, _)
NonEmptySeqsUpTo(S, n) ==
    IF n = 0 THEN {}
    ELSE LET shorter == NonEmptySeqsUpTo(S, n - 1)
         IN  {<<c>> : c \in S} \cup shorter
             \cup {Append(s, c) : s \in shorter, c \in S}

PhInit ==
    /\ \E h1 \in HaveSets, h2 \in HaveSets, a1 \in BOOLEAN, a2 \in BOOLEAN :
          audio_files = << AudioFileRow(<<"one">>, h1, a1),
                           AudioFileRow(<<"two">>, h2, a2) >>
    /\ segments = <<>> /\ templates = <<>>
    /\ ph_in \in [ done : {TRUE},
                   placeholder : { <<"{", "train_number", "}">>,
                                   <<"{", "platform_number", "}">> },
                   value : NonEmptySeqsUpTo(PhDigits, MaxDigits),
                   language : Languages ]
    /\ ph_out = NotRun
    /\ NoFiles /\ SegIdle /\ ClIdle /\ CcIdle /\ JobIdle /\ ExtIdle("")

CallPlaceholder ==
    /\ ~ph_out.done
    /\ ph_out' = [done |-> TRUE,
                  paths |-> get_existing_audio_for_placeholder(
                                ph_in.placeholder, ph_in.value, ph_in.language)]
    /\ UNCHANGED <<dbVars, files, segVars, ph_in, clVars, ccVars, jobVars, extVars>>

PhNext == CallPlaceholder

PhSpec == PhInit /\ [][PhNext]_vars

(***************************************************************************)
(* Specification of the concatenation: the files on disk and a list of     *)
(* audio paths are drawn, concatenate_audio_files is called.               *)
(***************************************************************************)
ClipNames == {"A.mp3", "B.mp3", "C.mp3"}

ClipFile(name) == audio_dir \o <<name>>

\* the file systems over a set of clip names: each clip missing, unloadable or good
FileSystems(names) ==
    { [p \in {ClipFile(n) : n \in present} |->
          [loadable |-> p \in {ClipFile(n) : n \in good}, audio |-> <<p>>]] :
      present \in SUBSET names, good \in SUBSET names }

OutputFile == audio_dir \o <<"merged", "out.mp3">>

CcInit ==
    /\ files \in FileSystems(ClipNames)
    /\ cc_in \in [ done : {TRUE},
                   audio_paths :
                       SeqsUpTo({NoPath} \cup {<<"/audio_files/", n>> : n \in ClipNames},
                                MaxPaths),
                   output_path : {OutputFile} ]
    /\ cc_out = NotRun
    /\ NoCatalog /\ SegIdle /\ PhIdle /\ ClIdle /\ JobIdle /\ ExtIdle("")

CallConcatenate ==
    /\ ~cc_out.done
    /\ LET r == concatenate_audio_files(files, cc_in.audio_paths, cc_in.output_path)
       IN  /\ cc_out' = [done |-> TRUE, ok |-> r.ok]
           /\ files' = r.files
    /\ UNCHANGED <<dbVars, segVars, phVars, clVars, cc_in, jobVars, extVars>>

CcNext == CallConcatenate

CcSpec == CcInit /\ [][CcNext]_vars

(***************************************************************************)
(* Specification of the clip list of one language: a template, its         *)
(* harvested segments, a catalog, the train data and a language are drawn, *)
(* the loop of lines 413-490 runs.                                         *)
(***************************************************************************)
TemplateRow(category, english_text, translated, active) ==
    [ category |-> category,
      english_text |-> english_text,
      marathi_text |-> IF "marathi" \in translated
                       THEN Translated(english_text, "marathi") ELSE NoText,
      hindi_text |-> IF "hindi" \in translated
                     THEN Translated(english_text, "hindi") ELSE NoText,
      gujarati_text |-> IF "gujarati" \in translated
                        THEN Translated(english_text, "gujarati") ELSE NoText,
      is_active |-> active ]

\* the path generate_announcement_audio_segments_background gives a segment
SegmentPath(category, language, order, template_id) ==
    << "/audio_files/",
       "announcement_" \o category \o "_" \o language \o "_segment_"
           \o ToString(order) \o "_" \o ToString(template_id) \o ".mp3" >>

\* the rows it adds for one language of a template; those of off are inactive
SegmentRows(template_id, template, language, off) ==
    LET texts == split_text_into_segments(TemplateText(template, language))
    IN  [i \in 1..Len(texts) |->
            [ template_id |-> template_id,
              category |-> template.category,
              segment_text |-> texts[i],
              language |-> language,
              segment_order |-> i,
              audio_path |-> SegmentPath(template.category, language, i, template_id),
              is_active |-> i \notin off ]]

HarvestedSegments(template_id, template, off) ==
    SegmentRows(template_id, template, "english", off)
    \o SegmentRows(template_id, template, "marathi", off)
    \o SegmentRows(template_id, template, "hindi", off)
    \o SegmentRows(template_id, template, "gujarati", off)

NameText ==
    << "{", "train_name", "}", " ", "from", " ", "{", "start_station_name", "}",
       " ", "{", "via", "}", " ", "departs" >>

ClipTexts == {ScenarioText, NameText}

ScenarioTrain ==
    [ train_number |-> <<"1", "2">>,
      train_name |-> <<"Rajdhani", " ", "Express">>,
      start_station_name |-> <<"Mumbai">>,
      end_station_name |-> <<"Surat">>,
      platform_number |-> <<"5">> ]

OtherTrain ==
    [ train_number |-> <<"2", "1", "5">>,
      train_name |-> <<"Rajdhani">>,
      start_station_name |-> <<"Surat">>,
      end_station_name |-> <<"Mumbai">>,
      platform_number |-> <<"1", "2">> ]

CatalogTexts ==
    << <<"one">>, <<"two">>, <<"five">>, <<"Rajdhani">>, <<"Express">>,
       <<"Mumbai", " ", "Central">> >>

\* the AudioFile rows of CatalogTexts; the texts of off are soft-deleted
CatalogRows(have, off) ==
    [i \in 1..Len(CatalogTexts) |->
        AudioFileRow(CatalogTexts[i], have, i \notin off)]

ClInit ==
    /\ \E text \in ClipTexts, translated \in {{}, Languages},
          seg_off \in SUBSET {1, 2} :
          /\ templates = <<TemplateRow("arrival", text, translated, TRUE)>>
          /\ segments = HarvestedSegments(1, templates[1], seg_off)
    /\ \E have \in HaveSets, off \in SUBSET (1..Len(CatalogTexts)) :
          audio_files = CatalogRows(have, off)
    /\ cl_in \in [ done : {TRUE}, template_id : {1}, language : Languages,
                   train_data : {ScenarioTrain, OtherTrain} ]
    /\ cl_out = NotRun
    /\ NoFiles /\ SegIdle /\ PhIdle /\ CcIdle /\ JobIdle /\ ExtIdle("")

RunClipList ==
    /\ ~cl_out.done
    /\ LET template_text == TemplateText(templates[cl_in.template_id], cl_in.language)
       IN  cl_out' =
             IF template_text = NoText
             THEN [done |-> TRUE, skipped |-> TRUE, audio_paths |-> <<>>]
             ELSE [done |-> TRUE, skipped |-> FALSE,
                   audio_paths |-> AudioPaths(template_text, cl_in.language,
                                              cl_in.template_id, cl_in.train_data)]
    /\ UNCHANGED <<dbVars, files, segVars, phVars, cl_in, ccVars, jobVars, extVars>>

ClNext == RunClipList

ClSpec == ClInit /\ [][ClNext]_vars

(***************************************************************************)
(* Specification of the generation jobs: generate requests, the background *)
(* tasks they start (one step per write to generation_progress), progress  *)
(* polls, the clock, and the operations that change what a task reads:     *)
(* the soft delete of a template and clear-all.                            *)
(***************************************************************************)
Jobs == 1..MaxJobs

\* what a task holds: its arguments and its local variables
IdleTask ==
    [ template_id |-> 0, train_data |-> <<>>, generation_key |-> "",
      template |-> NotRun, timestamp |-> "", final_audio_files |-> <<>>,
      audio_files_to_merge |-> <<>>, merged_path |-> NoPath ]

TrainData(number) == [ScenarioTrain EXCEPT !.train_number = number]

\* train data without one of the five required fields
NoPlatformData ==
    [ train_number |-> <<"1", "2">>,
      train_name |-> <<"Rajdhani", " ", "Express">>,
      start_station_name |-> <<"Mumbai">>,
      end_station_name |-> <<"Surat">> ]

\* the requests made: two trains on one template, one train on two templates,
\* and a request that lacks a required field
Requests ==
    { <<1, TrainData(<<"1", "2">>)>>, <<1, TrainData(<<"1", "5">>)>>,
      <<2, TrainData(<<"1", "2">>)>>, <<2, NoPlatformData>> }

required_fields ==
    { "train_number", "train_name", "start_station_name", "end_station_name",
      "platform_number" }

\* the template an operator retires while jobs run
Retired == {2}

JobText1 == <<"Train", " ", "{", "train_number", "}">>
JobText2 == <<"{", "train_number", "}", " ", "arriving">>

\* every clip the catalog names is on disk and loads
CatalogFiles ==
    LET paths == {segments[i].audio_path : i \in 1..Len(segments)}
                 \cup {AudioColumn(audio_files[i], l) :
                          i \in 1..Len(audio_files), l \in Languages}
    IN  [p \in {OnDisk(q) : q \in paths \ {NoPath}} |->
            [loadable |-> TRUE, audio |-> <<p>>]]

JobInit ==
    /\ \E translated2 \in {Languages, Languages \ {"gujarati"}} :
          templates = << TemplateRow("arrival", JobText1, Languages, TRUE),
                         TemplateRow("arrival", JobText2, translated2, TRUE) >>
    /\ segments = HarvestedSegments(1, templates[1], {})
                  \o HarvestedSegments(2, templates[2], {})
    /\ audio_files = CatalogRows(Languages, {})
    /\ files = CatalogFiles
    /\ generation_progress = <<>>
    /\ now = 0
    /\ task = [j \in Jobs |-> IdleTask]
    /\ pc = [j \in Jobs |-> "idle"]
    /\ response = NotRun
    /\ SegIdle /\ PhIdle /\ ClIdle /\ CcIdle /\ ExtIdle("")

\* generation_progress[generation_key] = entry
SetEntry(key, entry) ==
    [k \in DOMAIN generation_progress \cup {key} |->
        IF k = key THEN entry ELSE generation_progress[k]]

\* the request handler without the count of the template's segments
GenerateRequestWithoutSegments(template_id, train_data) ==
    LET template == FirstRow({i \in 1..Len(templates) :
                                 i = template_id /\ templates[i].is_active})
        missing_fields == required_fields \ DOMAIN train_data
        free == {j \in Jobs : pc[j] = "idle"}
    IN  /\ IF template = NoRow
           THEN /\ response' = [status_code |-> 404,
                                detail |-> "Announcement template not found"]
                /\ UNCHANGED <<task, pc>>
           ELSE IF missing_fields # {}
           THEN /\ response' = [status_code |-> 400,
                                detail |-> "Missing required train data fields"]
                /\ UNCHANGED <<task, pc>>
           ELSE /\ free # {}
                /\ LET j == CHOOSE k \in free : \A m \in free : k <= m
                   IN  /\ task' = [task EXCEPT ![j] =
                                      [IdleTask EXCEPT !.template_id = template_id,
                                                       !.train_data = train_data]]
                       /\ pc' = [pc EXCEPT ![j] = "queued"]
                /\ response' = [status_code |-> 200,
                                generation_key |->
                                    GenerationKey(template_id, train_data)]
        /\ UNCHANGED <<dbVars, files, pureVars, generation_progress, now>>

\* generate_final_announcement (lines 580-640)
GenerateRequest(template_id, train_data) ==
    LET template == FirstRow({i \in 1..Len(templates) :
                                 i = template_id /\ templates[i].is_active})
        segments_count == Cardinality({i \in 1..Len(segments) :
                                 /\ segments[i].template_id = template_id
                                 /\ segments[i].is_active})
        missing_fields == required_fields \ DOMAIN train_data
        free == {j \in Jobs : pc[j] = "idle"}
    IN  /\ IF template = NoRow
           THEN /\ response' = [status_code |-> 404,
                                detail |-> "Announcement template not found"]
                /\ UNCHANGED <<task, pc>>
           ELSE IF segments_count = 0
           THEN /\ response' = [status_code |-> 400, detail |-> "No audio segments"]
                /\ UNCHANGED <<task, pc>>
           ELSE IF missing_fields # {}
           THEN /\ response' = [status_code |-> 400,
                                detail |-> "Missing required train data fields"]
                /\ UNCHANGED <<task, pc>>
           ELSE /\ free # {}
                /\ LET j == CHOOSE k \in free : \A m \in free : k <= m
                   IN  /\ task' = [task EXCEPT ![j] =
                                      [IdleTask EXCEPT !.template_id = template_id,
                                                       !.train_data = train_data]]
                       /\ pc' = [pc EXCEPT ![j] = "queued"]
                /\ response' = [status_code |-> 200,
                                generation_key |->
                                    GenerationKey(template_id, train_data)]
        /\ UNCHANGED <<dbVars, files, pureVars, generation_progress, now>>

\* check_generation_progress (lines 642-661)
check_generation_progress(generation_key) ==
    /\ response' =
          IF generation_key \notin DOMAIN generation_progress
          THEN [status_code |-> 404, detail |-> "Generation not found",
                generation_key |-> generation_key]
          ELSE [status_code |-> 200, generation_key |-> generation_key,
                progress |-> generation_progress[generation_key]]
    /\ UNCHANGED <<dbVars, files, pureVars, generation_progress, now, task, pc>>

\* the clock reaches the next second
Tick ==
    /\ now < MaxClock
    /\ now' = now + 1
    /\ response' = NotRun
    /\ UNCHANGED <<dbVars, files, pureVars, generation_progress, task, pc>>

\* templates.py delete_template: the soft delete
delete_template(template_id) ==
    /\ templates[template_id].is_active
    /\ templates' = [templates EXCEPT ![template_id].is_active = FALSE]
    /\ response' = NotRun
    /\ UNCHANGED <<audio_files, segments, files, pureVars,
                   generation_progress, now, task, pc>>

\* a write by task j to its progress entry
WriteProgress(j, entry) ==
    generation_progress' = SetEntry(task[j].generation_key, entry)

Entry(j) == generation_progress[task[j].generation_key]

TaskFrame == response' = NotRun /\ UNCHANGED <<dbVars, pureVars, now>>

\* lines 366-376
TaskStart(j) ==
    /\ pc[j] = "queued"
    /\ LET key == GenerationKey(task[j].template_id, task[j].train_data)
       IN  /\ generation_progress' = SetEntry(key, InitialProgress)
           /\ task' = [task EXCEPT ![j].generation_key = key]
    /\ pc' = [pc EXCEPT ![j] = "starting"]
    /\ TaskFrame /\ UNCHANGED files

\* line 380
TaskProcessing(j) ==
    /\ pc[j] = "starting"
    /\ WriteProgress(j, [Entry(j) EXCEPT !.status = "processing"])
    /\ pc' = [pc EXCEPT ![j] = "lookup"]
    /\ TaskFrame /\ UNCHANGED <<files, task>>

\* lines 382-401: the template is read; when it is not there the error is set
TaskLookup(j) ==
    /\ pc[j] = "lookup"
    /\ LET template == FirstRow({i \in 1..Len(templates) :
                                    i = task[j].template_id /\ templates[i].is_active})
       IN  IF template = NoRow
           THEN /\ WriteProgress(j, [Entry(j) EXCEPT !.error = "Template not found"])
                /\ pc' = [pc EXCEPT ![j] = "set_error"]
                /\ UNCHANGED task
           ELSE /\ task' = [task EXCEPT ![j].template = templates[template],
                                        ![j].timestamp = Timestamp(now)]
                /\ pc' = [pc EXCEPT ![j] = languages[1]]
                /\ UNCHANGED generation_progress
    /\ TaskFrame /\ UNCHANGED files

\* the query or os.makedirs raises: the outer except, line 571
TaskLookupRaises(j) ==
    /\ pc[j] = "lookup"
    /\ WriteProgress(j, [Entry(j) EXCEPT !.error = "exception"])
    /\ pc' = [pc EXCEPT ![j] = "set_error"]
    /\ TaskFrame /\ UNCHANGED <<files, task>>

\* the position of a language in the loop
Index(language) == CHOOSE i \in 1..Len(languages) : languages[i] = language

\* where the loop goes after a language
AfterLanguage(language) ==
    IF Index(language) = Len(languages) THEN "update"
    ELSE languages[Index(language) + 1]

\* lines 407-513: one pass of the loop, for the language the task is at
TaskLanguage(j) ==
    /\ pc[j] \in Languages
    /\ LET language == pc[j]
           r == ProcessLanguage(files, task[j].template, language,
                                task[j].timestamp, task[j].template_id,
                                task[j].train_data)
           faf == task[j].final_audio_files
       IN  /\ WriteProgress(j, [Entry(j) EXCEPT
                                   !.current_language = language,
                                   !.completed_languages = Index(language) - 1])
           /\ files' = r.files
           /\ task' = [task EXCEPT ![j].final_audio_files =
                          IF r.produced
                          THEN [l \in DOMAIN faf \cup {language} |->
                                   IF l = language THEN r.entry ELSE faf[l]]
                          ELSE faf]
           /\ pc' = [pc EXCEPT ![j] = AfterLanguage(language)]
    /\ TaskFrame

\* lines 515-523 and 556-557: the progress is updated; with the four outputs the
\* status becomes merging, else the error names how many there are
TaskDecide(j) ==
    /\ pc[j] = "update"
    /\ LET faf == task[j].final_audio_files
           updated == [Entry(j) EXCEPT !.completed_languages = Len(languages),
                                       !.final_audio_files = faf]
       IN  IF Cardinality(DOMAIN faf) = 4
           THEN /\ WriteProgress(j, [updated EXCEPT !.status = "merging"])
                /\ pc' = [pc EXCEPT ![j] = "merge"]
           ELSE /\ WriteProgress(j, [updated EXCEPT
                      !.error = OnlySomeMessage(Cardinality(DOMAIN faf))])
                /\ pc' = [pc EXCEPT ![j] = "set_error"]
    /\ TaskFrame /\ UNCHANGED <<files, task>>

\* lines 525-549 and 553: the merge; the concatenator also reports failure
\* when the export raises (lines 354-356)
TaskMerge(j) ==
    /\ pc[j] = "merge"
    /\ \E raised \in BOOLEAN :
       LET merged_filename == MergedFilename(task[j].train_data,
                                             task[j].template.category,
                                             task[j].timestamp)
           merged_path == audio_dir \o <<"merged", merged_filename>>
           to_merge == audio_files_to_merge(task[j].final_audio_files)
           r == concatenate_audio_files(files, to_merge, merged_path)
           success == r.ok /\ ~raised
       IN  /\ files' = IF success THEN r.files ELSE files
           /\ WriteProgress(j,
                 IF success
                 THEN [Entry(j) EXCEPT !.merged_audio_path =
                          <<"/audio_files/", "merged", merged_filename>>]
                 ELSE [Entry(j) EXCEPT !.error = "Failed to merge audio files"])
           /\ task' = [task EXCEPT
                 ![j].audio_files_to_merge = to_merge,
                 ![j].merged_path = IF success THEN merged_path ELSE NoPath]
           /\ pc' = [pc EXCEPT ![j] = IF success THEN "set_completed"
                                      ELSE "set_error"]
    /\ TaskFrame

\* line 550
TaskSetCompleted(j) ==
    /\ pc[j] = "set_completed"
    /\ WriteProgress(j, [Entry(j) EXCEPT !.status = "completed"])
    /\ pc' = [pc EXCEPT ![j] = "done"]
    /\ TaskFrame /\ UNCHANGED <<files, task>>

\* the error paths without the write of the status
TaskSetErrorSkipped(j) ==
    /\ pc[j] = "set_error"
    /\ pc' = [pc EXCEPT ![j] = "done"]
    /\ TaskFrame /\ UNCHANGED <<files, task, generation_progress>>

\* lines 391, 554, 558, 572
TaskSetError(j) ==
    /\ pc[j] = "set_error"
    /\ WriteProgress(j, [Entry(j) EXCEPT !.status = "error"])
    /\ pc' = [pc EXCEPT ![j] = "done"]
    /\ TaskFrame /\ UNCHANGED <<files, task>>

TaskStep(j) ==
    \/ TaskStart(j)
    \/ TaskProcessing(j)
    \/ TaskLookup(j)
    \/ TaskLookupRaises(j)
    \/ TaskLanguage(j)
    \/ TaskDecide(j)
    \/ TaskMerge(j)
    \/ TaskSetCompleted(j)
    \/ TaskSetError(j)

\* the keys the accepted requests returned
PollKeys ==
    {GenerationKey(task[j].template_id, task[j].train_data) :
        j \in {k \in Jobs : pc[k] # "idle"}}

JobNext ==
    \/ \E r \in Requests : GenerateRequest(r[1], r[2])
    \/ \E k \in PollKeys : check_generation_progress(k)
    \/ \E j \in Jobs : TaskStep(j)
    \/ Tick
    \/ \E t \in Retired : delete_template(t)

JobSpec == JobInit /\ [][JobNext]_vars

\* The tasks under the scheduler: an accepted task is started and each of its
\* steps returns or raises.  Polls and the clock change nothing a task reads
\* to decide its next step, so they are left to JobSpec.
LiveNext ==
    \/ \E r \in Requests : GenerateRequest(r[1], r[2])
    \/ \E j \in Jobs : TaskStep(j)
    \/ \E t \in Retired : delete_template(t)

Positions ==
    {"idle", "queued", "starting", "lookup"} \cup Languages
        \cup {"update", "merge", "set_completed", "set_error", "done"}

\* task j moves on.  Every step of TaskStep(j) moves pc[j], no other action
\* moves the pc of a task that is under way, and a task that is under way has
\* a step to take: fairness of Advance(j) is fairness of TaskStep(j).
Advance(j) ==
    /\ pc[j] \notin {"idle", "done"}
    /\ \E p \in Positions : pc' = [pc EXCEPT ![j] = p]

LiveSpec ==
    JobInit /\ [][LiveNext]_vars /\ \A j \in Jobs : WF_pc(Advance(j))

(***************************************************************************)
(* Segmentation properties.                                                *)
(***************************************************************************)
RECURSIVE Flatten(_)
Flatten(ss) == IF ss = <<>> THEN <<>> ELSE Head(ss) \o Flatten(Tail(ss))

SegmentValues(segs) == [i \in 1..Len(segs) |-> segs[i].value]

IsPlaceholderSeg(sg) == sg.kind = "placeholder"

NoSpace(s) == SelectSeq(s, LAMBDA c : ~IsSpace(c))

\* the placeholder entries are the N placeholders of the text, left to right
PlaceholdersInOrder ==
    LET entries == SelectSeq(seg_out.segments, IsPlaceholderSeg)
        found == seg_out.placeholders
        pos == seg_out.positions
    IN  /\ Len(entries) = Len(found)
        /\ \A k \in 1..Len(found) :
              /\ entries[k].value = <<"{">> \o Strip(found[k]) \o <<"}">>
              /\ Slice(seg_text, pos[k].start + 1, pos[k].end - 1) = found[k]
        /\ \A k \in 1..(Len(pos) - 1) : pos[k].end <= pos[k + 1].start

DigitClip(digit, language) ==
    LET rows == {i \in 1..Len(audio_files) :
                    /\ audio_files[i].english_text = <<DigitToWord(digit)>>
                    /\ audio_files[i].is_active
                    /\ AudioColumn(audio_files[i], language) # NoPath}
    IN  IF rows = {} THEN NoPath
        ELSE AudioColumn(audio_files[CHOOSE i \in rows : \A k \in rows : i <= k],
                         language)

\* C4 as stated: for a train_number or platform_number placeholder whose
\* value is a digit string of length K the lookup returns either exactly K
\* clips, one per digit in the original order, or the empty result as a
\* whole; never a shorter list when some digit has no clip.
C4_AllDigitsOrNothing ==
    ph_out.done =>
        \/ ph_out.paths = <<>>
        \/ /\ Len(ph_out.paths) = Len(ph_in.value)
           /\ \A i \in 1..Len(ph_in.value) :
                 ph_out.paths[i] = DigitClip(ph_in.value[i], ph_in.language)

\* the lookup has run on a number with several digits, one of them without a clip
C4_Witness ==
    /\ ph_out.done
    /\ Len(ph_in.value) >= 2
    /\ \E i, k \in 1..Len(ph_in.value) :
          /\ DigitClip(ph_in.value[i], ph_in.language) = NoPath
          /\ DigitClip(ph_in.value[k], ph_in.language) # NoPath

(***************************************************************************)
(* Concatenation with no or one usable input.                              *)
(***************************************************************************)
\* the entries of the list that are neither None nor empty
C10_Given == SelectSeq(cc_in.audio_paths, LAMBDA p : p # NoPath)

C11_Used ==
    SelectSeq(cc_in.audio_paths,
              LAMBDA p : p # NoPath /\ Exists(files, OnDisk(p)))

\* C11: the clips of the exported output are those of the entries that were
\* used, in the order the caller gave them.
C11_InputOrder ==
    (cc_out.done /\ cc_out.ok) =>
        files[cc_in.output_path].audio
            = Flatten([i \in 1..Len(C11_Used) |-> files[OnDisk(C11_Used[i])].audio])

\* an output made of three different clips
C11_Witness ==
    /\ cc_out.done /\ cc_out.ok
    /\ Len(C11_Used) = 3
    /\ Cardinality({C11_Used[i] : i \in 1..3}) = 3

\* the entries of the list that are not empty; the files of those after the
\* first that can be loaded
C22_Valid == SelectSeq(cc_in.audio_paths, LAMBDA p : p # NoPath)

C22_FirstLoads ==
    /\ C22_Valid # <<>>
    /\ Exists(files, OnDisk(C22_Valid[1]))
    /\ files[OnDisk(C22_Valid[1])].loadable

C22_Loaded ==
    SelectSeq(C22_Valid,
              LAMBDA p : Exists(files, OnDisk(p)) /\ files[OnDisk(p)].loadable)

\* C22: when the first file loads the call reports success and the output
\* plays every file that could be loaded, the files that are missing or fail
\* to load being skipped; when the first file is missing or fails to load the
\* call reports failure.
C22_LaterFailuresSkipped ==
    (cc_out.done /\ C22_Valid # <<>>) =>
        IF C22_FirstLoads
        THEN /\ cc_out.ok
             /\ Exists(files, cc_in.output_path)
             /\ files[cc_in.output_path].audio
                    = Flatten([i \in 1..Len(C22_Loaded) |->
                                  files[OnDisk(C22_Loaded[i])].audio])
        ELSE ~cc_out.ok

\* the call has returned for a list whose first file loads, whose second is
\* on disk but cannot be loaded, and whose third loads
C22_Witness ==
    /\ cc_out.done /\ C22_FirstLoads
    /\ Len(C22_Valid) = 3
    /\ Exists(files, OnDisk(C22_Valid[2]))
    /\ ~files[OnDisk(C22_Valid[2])].loadable
    /\ Exists(files, OnDisk(C22_Valid[3]))
    /\ files[OnDisk(C22_Valid[3])].loadable

(***************************************************************************)
(* The clip list of one language.                                          *)
(***************************************************************************)
\* the clips one segment resolves to
C6_ClipsOf(sg) ==
    IF sg.kind = "literal"
    THEN LET p == get_existing_audio_for_text(sg.value, cl_in.language,
                                              cl_in.template_id)
         IN  IF p # NoPath THEN <<p>> ELSE <<>>
    ELSE LET key == JoinAtoms(SubSeq(sg.value, 2, Len(sg.value) - 1))
         IN  IF key \in DOMAIN cl_in.train_data
             THEN get_existing_audio_for_placeholder(
                      sg.value, cl_in.train_data[key], cl_in.language)
             ELSE <<>>

C6_IsScenario ==
    /\ templates[1].english_text = ScenarioText
    /\ cl_in.language = "english"
    /\ cl_in.train_data = ScenarioTrain
    /\ \A i \in 1..Len(segments) : segments[i].is_active
    /\ \A i \in 1..3 :
          audio_files[i].is_active /\ audio_files[i].english_audio_path # NoPath

\* C6: the clip list of one language is in document order: for each
\* placeholder from left to right the clip of the literal text before it (when
\* one resolves), then the placeholder's clips in play order, and last the clip
\* of the trailing literal; for "Train {train_number} arriving at platform
\* {platform_number}" with train_number 12 and platform_number 5 the list is
\* train, one, two, arriving at platform, five.
C6_DocumentOrder ==
    (cl_out.done /\ ~cl_out.skipped) =>
        LET segs == Segments(TemplateText(templates[cl_in.template_id],
                                          cl_in.language))
        IN  /\ cl_out.audio_paths =
                   Flatten([i \in 1..Len(segs) |-> C6_ClipsOf(segs[i])])
            /\ C6_IsScenario =>
                   cl_out.audio_paths =
                       << SegmentPath("arrival", "english", 1, 1),
                          ClipPath(<<"one">>, "english"),
                          ClipPath(<<"two">>, "english"),
                          SegmentPath("arrival", "english", 2, 1),
                          ClipPath(<<"five">>, "english") >>

\* the loop has run on the scenario of the claim
C6_Witness == cl_out.done /\ ~cl_out.skipped /\ C6_IsScenario

\* C23: when the template has no text in the language of the run, the run
\* is not skipped for that language and builds the clip list of the
\* template's English text.
C23_EnglishTextWhenAbsent ==
    ( /\ cl_out.done
      /\ TemplateText(templates[cl_in.template_id], cl_in.language) = NoText
      /\ templates[cl_in.template_id].english_text # NoText ) =>
        /\ ~cl_out.skipped
        /\ cl_out.audio_paths
               = AudioPaths(templates[cl_in.template_id].english_text,
                            cl_in.language, cl_in.template_id, cl_in.train_data)

\* the loop has run for Marathi on a template that has an English text only
C23_Witness ==
    /\ cl_out.done
    /\ cl_in.language = "marathi"
    /\ templates[cl_in.template_id].marathi_text = NoText
    /\ templates[cl_in.template_id].english_text # NoText

(***************************************************************************)
(* Properties of the generation jobs.                                      *)
(***************************************************************************)
Accepted == {j \in Jobs : pc[j] # "idle"}
Key(j) == GenerationKey(task[j].template_id, task[j].train_data)
Outputs(j) == DOMAIN task[j].final_audio_files
SameKeyJobs == {p \in Accepted \X Accepted : p[1] # p[2] /\ Key(p[1]) = Key(p[2])}

Rank(status) ==
    CASE status = "starting" -> 1 [] status = "processing" -> 2
      [] status = "merging" -> 3 [] status = "completed" -> 4 [] OTHER -> 5

\* a status follows another: the same, a later one of the four, or error
Forward(old, new) ==
    \/ new = old
    \/ old # "error" /\ new = "error"
    \/ old # "error" /\ new # "error" /\ Rank(old) < Rank(new)

\* C1: for every progress key the status only stays, moves forward through
\* starting, processing, merging, completed, or jumps to error; in particular an
\* entry that reached completed never takes an earlier status, also when a
\* later job uses the same key.
C1_StatusOnlyForward ==
    [][\A k \in DOMAIN generation_progress :
          Forward(generation_progress[k].status, generation_progress'[k].status)]_vars

\* an entry is back at starting although a job with its key merged its outputs
C1_Witness ==
    \E p \in SameKeyJobs :
        /\ pc[p[1]] = "done" /\ task[p[1]].merged_path # NoPath
        /\ pc[p[2]] = "starting"
        /\ generation_progress[Key(p[2])].status = "starting"

\* C2: a job goes on to the merge exactly when its loop produced the four
\* outputs; a job that produced fewer ends with status error, the message that
\* names how many it produced, no merged_audio_path, and its outputs listed in
\* the entry's final_audio_files.
C2_MergeIffAllFour ==
    [][\A j \in Jobs :
          /\ (pc[j] = "update" /\ pc'[j] # "update")
                => (pc'[j] = "merge" <=> Cardinality(Outputs(j)) = 4)
          /\ (/\ pc[j] = "set_error" /\ pc'[j] = "done"
              /\ task[j].timestamp # ""
              /\ Cardinality(Outputs(j)) < 4)
                => LET entry == generation_progress'[task[j].generation_key]
                   IN  /\ entry.status = "error"
                       /\ entry.error = OnlySomeMessage(Cardinality(Outputs(j)))
                       /\ entry.merged_audio_path = NoPath
                       /\ entry.final_audio_files = task[j].final_audio_files
                       /\ task[j].merged_path = NoPath]_vars

\* a job that produced three outputs has ended, and its entry has status error
\* but neither the message nor the outputs
C2_Witness ==
    \E j \in Jobs :
        /\ pc[j] = "done" /\ Cardinality(Outputs(j)) = 3
        /\ generation_progress[task[j].generation_key].status = "error"
        /\ generation_progress[task[j].generation_key].error = None

\* C3: the list handed to the concatenator for the merge is the four outputs
\* of the job in the order english, hindi, marathi, gujarati.
C3_MergeOrder ==
    \A j \in Jobs :
        task[j].audio_files_to_merge # <<>> =>
            /\ Outputs(j) = Languages
            /\ task[j].audio_files_to_merge =
                  << task[j].final_audio_files["english"].audio_path,
                     task[j].final_audio_files["hindi"].audio_path,
                     task[j].final_audio_files["marathi"].audio_path,
                     task[j].final_audio_files["gujarati"].audio_path >>

\* a job has written its merged file
C3_Witness ==
    \E j \in Jobs :
        /\ task[j].merged_path # NoPath
        /\ task[j].merged_path \in DOMAIN files
        /\ Len(task[j].audio_files_to_merge) = 4

\* the files a job has written
Written(j) ==
    {OnDisk(task[j].final_audio_files[l].audio_path) : l \in Outputs(j)}
        \cup (IF task[j].merged_path # NoPath THEN {task[j].merged_path} ELSE {})

Differ(j, k) ==
    \/ task[j].template_id # task[k].template_id
    \/ task[j].train_data.train_number # task[k].train_data.train_number

\* C7: two jobs that differ in template id or in train number have different
\* progress keys and write no file in common, also when they start in the
\* same second.
C7_DistinctKeysAndFiles ==
    \A j \in Accepted, k \in Accepted :
        (j # k /\ Differ(j, k)) =>
            /\ Key(j) # Key(k)
            /\ Written(j) \cap Written(k) = {}

\* two jobs for different trains, started in the same second, both past the
\* english pass
C7_Witness ==
    \E j \in Accepted, k \in Accepted :
        /\ task[j].train_data.train_number # task[k].train_data.train_number
        /\ task[j].timestamp # "" /\ task[j].timestamp = task[k].timestamp
        /\ "english" \in Outputs(j) /\ "english" \in Outputs(k)

IsPollResponse ==
    /\ "generation_key" \in DOMAIN response
    /\ {"detail", "progress"} \cap DOMAIN response # {}

\* C8: a poll for the key of an accepted request is answered with the entry of
\* the job, never with a failure.
C8_PollNeverFails ==
    IsPollResponse =>
        /\ response.status_code = 200
        /\ response.progress = generation_progress[response.generation_key]

\* a poll for a job that is under way is answered with its entry
C8_Witness ==
    /\ "progress" \in DOMAIN response
    /\ \E j \in Jobs : /\ pc[j] \in Languages
                       /\ Key(j) = response.generation_key
                       /\ response.progress.status = "processing"

Running(j) == pc[j] \notin {"idle", "queued", "done"}

Terminal(j) ==
    /\ task[j].generation_key \in DOMAIN generation_progress
    /\ generation_progress[task[j].generation_key].status \in {"completed", "error"}

\* C9: the entry of every job that has started reaches a terminal status,
\* completed or error.
C9_EventuallyTerminal == \A j \in Jobs : Running(j) ~> Terminal(j)

\* jobs have ended on each path: template not found, fewer than four outputs,
\* merge failed, exception, completed
C9_Witness ==
    \E j \in Jobs :
        /\ pc[j] = "done" /\ Terminal(j)
        /\ generation_progress[task[j].generation_key].error
              = "Failed to merge audio files"

\* C25: in every state every progress entry is consistent with its status:
\* completed goes with a merged_audio_path, no error and the four languages in
\* final_audio_files; error goes with an error and no merged_audio_path;
\* starting, processing and merging go with neither.
C25_EntryConsistent ==
    \A k \in DOMAIN generation_progress :
        LET entry == generation_progress[k]
        IN  /\ entry.status = "completed" =>
                  /\ entry.merged_audio_path # NoPath
                  /\ entry.error = None
                  /\ DOMAIN entry.final_audio_files = Languages
            /\ entry.status = "error" =>
                  /\ entry.error # None
                  /\ entry.merged_audio_path = NoPath
            /\ entry.status \in {"starting", "processing", "merging"} =>
                  /\ entry.merged_audio_path = NoPath
                  /\ entry.error = None

\* a job has written the path of its merged file and not yet the status
C25_Witness ==
    \E j \in Jobs :
        /\ pc[j] = "set_completed"
        /\ Entry(j).status = "merging"
        /\ Entry(j).merged_audio_path # NoPath

(***************************************************************************)
(* generate_isl_video_from_text (utils/isl_utils.py, lines 32-150).  The   *)
(* dataset is the listing of isl_dataset: folder name -> file names in     *)
(* os.listdir order, a file name being <<stem, extension>>.                *)
(***************************************************************************)
\* str.lower() on the atoms of a text
Lower(atom) ==
    CASE atom = "Train" -> "train" [] atom = "PLATFORM" -> "platform"
      [] OTHER -> atom

\* text.lower().strip().split(): the words as strings
Words(text) ==
    LET lowered == [i \in 1..Len(text) |-> Lower(text[i])]
        runs == Split(lowered)
    IN  [i \in 1..Len(runs) |-> JoinAtoms(runs[i])]

\* file.endswith('.mp4')
EndsWithMp4(file) == file # <<>> /\ file[Len(file)] = ".mp4"

\* the first mp4 of a folder's listing, <<>> when it has none (lines 64-71)
FirstMp4(listing) ==
    LET hits == {i \in 1..Len(listing) : EndsWithMp4(listing[i])}
    IN  IF hits = {} THEN <<>>
        ELSE listing[CHOOSE i \in hits : \A k \in hits : i <= k]

\* the loop with each video found put before those found earlier
RECURSIVE AvailableVideosReversed(_, _)
AvailableVideosReversed(dataset, words) ==
    IF words = <<>> THEN <<>>
    ELSE AvailableVideosReversed(dataset, Tail(words))
         \o (IF Head(words) \in DOMAIN dataset /\ FirstMp4(dataset[Head(words)]) # <<>>
             THEN << <<"isl_dataset", Head(words)>> \o FirstMp4(dataset[Head(words)]) >>
             ELSE <<>>)

\* available_videos (lines 57-73): for every word whose folder exists, its
\* first mp4
RECURSIVE AvailableVideos(_, _)
AvailableVideos(dataset, words) ==
    IF words = <<>> THEN <<>>
    ELSE (IF Head(words) \in DOMAIN dataset /\ FirstMp4(dataset[Head(words)]) # <<>>
          THEN << <<"isl_dataset", Head(words)>> \o FirstMp4(dataset[Head(words)]) >>
          ELSE <<>>)
         \o AvailableVideos(dataset, Tail(words))

\* hashlib.md5(text.encode()).hexdigest()[:8], kept as the text it digests
TextHash(text) == JoinAtoms([i \in 1..Len(Strip(text)) |-> Lower(Strip(text)[i])])

\* f"text_isl_{text_hash}_{timestamp}.mp4"
VideoFilename(text, timestamp) ==
    "text_isl_" \o TextHash(text) \o "_" \o ToString(timestamp) \o ".mp4"

NoVideo ==
    [raised |-> FALSE, error |-> None, vocabulary |-> {}, output_filename |-> "",
     written |-> FALSE, output |-> <<>>]

\* the call: what is raised or returned, and the output written
generate_isl_video_from_text(dataset, text, timestamp, ffmpeg_ok) ==
    LET available_videos == AvailableVideos(dataset, Words(text))
    IN  IF available_videos = <<>>
        THEN [NoVideo EXCEPT !.raised = TRUE,
                             !.error = "No matching ISL videos found for the given text",
                             !.vocabulary = DOMAIN dataset]
        ELSE IF Len(available_videos) = 1
        THEN [NoVideo EXCEPT !.output_filename = VideoFilename(text, timestamp),
                             !.written = TRUE,
                             !.output = available_videos]
        ELSE IF ffmpeg_ok
        THEN [NoVideo EXCEPT !.output_filename = VideoFilename(text, timestamp),
                             !.written = TRUE,
                             !.output = available_videos]
        ELSE [NoVideo EXCEPT !.raised = TRUE,
                             !.error = "Failed to concatenate videos"]

VidWords == {"Train", "platform", "zz", " "}
VidFolders == {"train", "platform"}
VidListings ==
    { <<>>, << <<"clip", ".mp4">> >>, << <<"notes", ".txt">> >>,
      << <<"notes", ".txt">>, <<"sign", ".mp4">>, <<"clip", ".mp4">> >> }

VidInit ==
    /\ \E folders \in SUBSET VidFolders :
       \E dataset \in [folders -> VidListings],
          text \in SeqsUpTo(VidWords, MaxWords),
          ffmpeg_ok \in BOOLEAN :
          vid_in = [done |-> TRUE, dataset |-> dataset, text |-> text,
                    now |-> 0, ffmpeg_ok |-> ffmpeg_ok]
    /\ vid_out = NotRun
    /\ CoreIdle /\ ExtIdle("vid")

CallGenerateVideo ==
    /\ vid_out = NotRun
    /\ vid_out' = generate_isl_video_from_text(vid_in.dataset, vid_in.text,
                                               vid_in.now, vid_in.ffmpeg_ok)
    /\ UNCHANGED <<coreVars, vid_in, pubVars, clnVars, laterVars>>

VidNext == CallGenerateVideo

VidSpec == VidInit /\ [][VidNext]_vars

\* a word of the text resolves: its folder is there and holds an mp4
C12_Resolves(word) ==
    word \in DOMAIN vid_in.dataset /\ FirstMp4(vid_in.dataset[word]) # <<>>

C12_Resolved == SelectSeq(Words(vid_in.text), C12_Resolves)

C12_Clips ==
    [i \in 1..Len(C12_Resolved) |->
        <<"isl_dataset", C12_Resolved[i]>> \o FirstMp4(vid_in.dataset[C12_Resolved[i]])]

Flows == {"publish_isl", "publish_speech_isl"}

\* possible_dirs: the system path, the local path, the temp path
possible_dirs(flow) == << <<"/var/www", flow>>, <<".", flow>>, <<"/tmp", flow>> >>

\* the loop over possible_dirs taking the last directory that can be written
PublishDirLast(flow, writable) ==
    LET hits == {i \in 1..Len(possible_dirs(flow)) : possible_dirs(flow)[i] \in writable}
    IN  IF hits = {} THEN <<>>
        ELSE possible_dirs(flow)[CHOOSE i \in hits : \A k \in hits : i >= k]

\* the loop over possible_dirs: the first directory where mkdir, the test
\* write and its removal succeed; <<>> for None
PublishDir(flow, writable) ==
    LET hits == {i \in 1..Len(possible_dirs(flow)) : possible_dirs(flow)[i] \in writable}
    IN  IF hits = {} THEN <<>>
        ELSE possible_dirs(flow)[CHOOSE i \in hits : \A k \in hits : i <= k]

\* request.train_number.replace(" ", "_")
SafeTrainNumber(train_number) ==
    JoinAtoms([i \in 1..Len(train_number) |->
                  IF train_number[i] = " " THEN "_" ELSE train_number[i]])

\* f"isl_announcement_{safe_train_number}_{timestamp}.html" and
\* f"speech_isl_{timestamp}.html"
PageFilename(flow, train_number, timestamp) ==
    IF flow = "publish_isl"
    THEN "isl_announcement_" \o SafeTrainNumber(train_number) \o "_" \o timestamp
             \o ".html"
    ELSE "speech_isl_" \o timestamp \o ".html"

\* a publish call: the directory is chosen, the page written, the URL returned
Publish(flow, train_number) ==
    /\ Len(pub_log) < MaxCalls
    /\ LET publish_dir == PublishDir(flow, pub_dirs)
           filename == PageFilename(flow, train_number, Timestamp(now))
           file_path == publish_dir \o <<filename>>
           call == Len(pub_log) + 1
       IN  IF publish_dir = <<>>
           THEN /\ pub_log' = Append(pub_log,
                     [flow |-> flow, train_number |-> train_number,
                      status_code |-> 500, file_path |-> <<>>, filename |-> "",
                      url |-> <<>>])
                /\ UNCHANGED pub_pages
           ELSE /\ pub_pages' = [p \in DOMAIN pub_pages \cup {file_path} |->
                                    IF p = file_path THEN call ELSE pub_pages[p]]
                /\ pub_log' = Append(pub_log,
                     [flow |-> flow, train_number |-> train_number,
                      status_code |-> 200, file_path |-> file_path,
                      filename |-> filename,
                      url |-> <<"/" \o flow \o "/", filename>>])
    /\ UNCHANGED <<coreVars, vidVars, pub_dirs, clnVars, laterVars>>

\* the clock reaches the next second between publish calls
PubTick ==
    /\ now < MaxClock
    /\ now' = now + 1
    /\ UNCHANGED <<dbVars, files, segVars, phVars, clVars, ccVars,
                   generation_progress, task, pc, response, extVars>>

PubTrains == { <<"12">>, <<"1", " ", "2">>, <<"15">> }

CandidateDirs == {possible_dirs(f)[i] : f \in Flows, i \in 1..3}

PubInit ==
    /\ pub_dirs \in SUBSET CandidateDirs
    /\ pub_pages = <<>>
    /\ pub_log = <<>>
    /\ CoreIdle /\ ExtIdle("pub")

PubNext ==
    \/ \E train_number \in PubTrains : Publish("publish_isl", train_number)
    \/ Publish("publish_speech_isl", <<>>)
    \/ PubTick

PubSpec == PubInit /\ [][PubNext]_vars

\* the calls of the log made through publish_isl_announcement
C13_Calls == {i \in 1..Len(pub_log) : pub_log[i].flow = "publish_isl"}

C13_Writable == {i \in 1..3 : possible_dirs("publish_isl")[i] \in pub_dirs}

\* C13: the page goes to the first writable directory of the list; with none
\* writable the call fails with 500 and writes no page; the URL starts with
\* /publish_isl/ whichever directory was used, the temp one included.
C13_FirstWritableDirectory ==
    \A i \in C13_Calls :
        IF C13_Writable = {}
        THEN /\ pub_log[i].status_code = 500
             /\ pub_pages = <<>> \/ \A p \in DOMAIN pub_pages : pub_pages[p] # i
        ELSE /\ pub_log[i].status_code = 200
             /\ \E d \in C13_Writable :
                   /\ \A k \in C13_Writable : d <= k
                   /\ pub_log[i].file_path
                         = possible_dirs("publish_isl")[d] \o <<pub_log[i].filename>>
             /\ pub_log[i].file_path \in DOMAIN pub_pages
             /\ pub_log[i].url = <<"/publish_isl/", pub_log[i].filename>>

\* a page was published with only the temp directory writable
C13_Witness ==
    /\ C13_Writable = {3}
    /\ \E i \in C13_Calls :
          /\ pub_log[i].status_code = 200
          /\ pub_log[i].file_path[1] = "/tmp"

\* C14: no two publish calls produce the same filename, and the page of every
\* call is still the one it wrote.
C14_UniqueFilenames ==
    \A i \in 1..Len(pub_log), j \in 1..Len(pub_log) :
        (i # j /\ pub_log[i].status_code = 200 /\ pub_log[j].status_code = 200) =>
            /\ pub_log[i].filename # pub_log[j].filename
            /\ pub_pages[pub_log[i].file_path] = i

\* two pages published for different trains in the same second
C14_Witness ==
    /\ Len(pub_log) = 2 /\ now = 0
    /\ pub_log[1].status_code = 200 /\ pub_log[2].status_code = 200
    /\ pub_log[1].filename # pub_log[2].filename
    /\ pub_log[1].flow = pub_log[2].flow

(***************************************************************************)
(* cleanup_publish_isl_directory (main.py, lines 1460-1524).  An entry of  *)
(* the directory is [kind, remove]: a file or a directory, and what        *)
(* os.remove does: "ok", "chmod" (PermissionError, removed after the       *)
(* chmod), "denied" (PermissionError also after it), "error" (another      *)
(* exception).                                                             *)
(***************************************************************************)
Removals == {"ok", "chmod", "denied", "error"}

\* os.listdir order, taken as the order of the names
Listing(entries) ==
    LET n == Cardinality(DOMAIN entries)
    IN  [i \in 1..n |-> CHOOSE k \in DOMAIN entries :
                            Cardinality({m \in DOMAIN entries : m < k}) = i - 1]

\* files_to_delete (lines 1479-1483)
FilesToDelete(entries) ==
    SelectSeq(Listing(entries), LAMBDA k : entries[k].kind = "file")

\* the deletion loop leaving at the first file that is not removed
RECURSIVE DeleteLoopAborting(_, _, _)
DeleteLoopAborting(entries, files_to_delete, deleted_count) ==
    IF files_to_delete = <<>>
    THEN [entries |-> entries, deleted_count |-> deleted_count]
    ELSE LET k == Head(files_to_delete)
         IN  IF entries[k].remove \in {"ok", "chmod"}
             THEN DeleteLoopAborting([m \in DOMAIN entries \ {k} |-> entries[m]],
                                     Tail(files_to_delete), deleted_count + 1)
             ELSE [entries |-> entries, deleted_count |-> deleted_count]

\* the deletion loop (lines 1493-1512)
RECURSIVE DeleteLoop(_, _, _)
DeleteLoop(entries, files_to_delete, deleted_count) ==
    IF files_to_delete = <<>>
    THEN [entries |-> entries, deleted_count |-> deleted_count]
    ELSE LET k == Head(files_to_delete)
         IN  IF entries[k].remove \in {"ok", "chmod"}
             THEN DeleteLoop([m \in DOMAIN entries \ {k} |-> entries[m]],
                             Tail(files_to_delete), deleted_count + 1)
             ELSE DeleteLoop(entries, Tail(files_to_delete), deleted_count)

cleanup_publish_isl_directory ==
    /\ cln_out = NotRun
    /\ cln_in' = cln_dir
    /\ IF ~cln_dir.exists
       THEN /\ cln_out' = [success |-> TRUE, files_deleted |-> 0,
                           message |-> "Directory does not exist, nothing to clean up"]
            /\ UNCHANGED cln_dir
       ELSE IF FilesToDelete(cln_dir.entries) = <<>>
       THEN /\ cln_out' = [success |-> TRUE, files_deleted |-> 0,
                           message |-> "No files found to clean up"]
            /\ UNCHANGED cln_dir
       ELSE LET r == DeleteLoop(cln_dir.entries, FilesToDelete(cln_dir.entries), 0)
            IN  /\ cln_dir' = [cln_dir EXCEPT !.entries = r.entries]
                /\ cln_out' = [success |-> TRUE, files_deleted |-> r.deleted_count,
                               message |-> "Successfully cleaned up"]
    /\ UNCHANGED <<coreVars, vidVars, pubVars, laterVars>>

ClnInit ==
    /\ \E names \in SUBSET (1..MaxFiles) :
       \E entries \in [names -> [kind : {"file", "dir"}, remove : Removals]],
          exists \in BOOLEAN :
          /\ (~exists => names = {})
          /\ cln_dir = [exists |-> exists, entries |-> entries]
    /\ cln_in = NotRun
    /\ cln_out = NotRun
    /\ CoreIdle /\ ExtIdle("cln")

ClnNext == cleanup_publish_isl_directory

ClnSpec == ClnInit /\ [][ClnNext]_vars

C15_Files(dir) == {k \in DOMAIN dir.entries : dir.entries[k].kind = "file"}

C15_Undeletable == {k \in C15_Files(cln_in) : cln_in.entries[k].remove \in {"denied", "error"}}

\* C15: the cleanup removes every file but those that cannot be deleted, and
\* files_deleted is the number of files actually removed.
C15_CleanupGoesOn ==
    cln_out # NotRun =>
        /\ cln_out.success
        /\ C15_Files(cln_dir) = C15_Undeletable
        /\ cln_out.files_deleted
              = Cardinality(C15_Files(cln_in)) - Cardinality(C15_Files(cln_dir))

\* three files, the second one undeletable: two deleted, files_deleted = 2
C15_Witness ==
    /\ cln_out # NotRun
    /\ C15_Files(cln_in) = {1, 2, 3}
    /\ C15_Undeletable = {2}
    /\ cln_out.files_deleted = 2
    /\ C15_Files(cln_dir) = {2}

(***************************************************************************)
(* Creation of audio files and templates, with the duplicate checks of     *)
(* utils/duplicate_checker.py.  The handlers are coroutines without an     *)
(* await between the check and the commit, so each one is a single step.   *)
(***************************************************************************)
MaxRequests == 4    \* the requests answered in one behaviour

\* the database session: the two tables the checks query
Db == [audio_files |-> audio_files, templates |-> templates]

\* the check with the text compared as it was sent
check_audio_file_duplicate_untrimmed(db, english_text) ==
    FirstRow({i \in DOMAIN db.audio_files :
                 /\ db.audio_files[i].english_text = english_text
                 /\ db.audio_files[i].is_active})

check_audio_file_duplicate(db, english_text) ==
    FirstRow({i \in DOMAIN db.audio_files :
                 /\ db.audio_files[i].english_text = Strip(english_text)
                 /\ db.audio_files[i].is_active})

\* the check looking for the text in the audio files as well
check_template_duplicate_in_both_tables(db, english_text) ==
    FirstRow({i \in DOMAIN db.templates :
                 /\ db.templates[i].english_text = Strip(english_text)
                 /\ db.templates[i].is_active}
             \cup {i \in DOMAIN db.audio_files :
                      /\ db.audio_files[i].english_text = Strip(english_text)
                      /\ db.audio_files[i].is_active})

check_template_duplicate(db, english_text) ==
    FirstRow({i \in DOMAIN db.templates :
                 /\ db.templates[i].english_text = Strip(english_text)
                 /\ db.templates[i].is_active})

\* AudioFile(english_text=..., english_translation=...): the other columns NULL
NewAudioFile(english_text) ==
    [AudioFileRow(english_text, {}, TRUE) EXCEPT
        !.marathi_translation = NoText,
        !.hindi_translation = NoText,
        !.gujarati_translation = NoText]

\* AnnouncementTemplate(category=..., title=..., english_text=...)
NewTemplate(category, title, english_text) ==
    [ category |-> category,
      title |-> title,
      english_text |-> english_text,
      marathi_text |-> NoText,
      hindi_text |-> NoText,
      gujarati_text |-> NoText,
      is_active |-> TRUE ]

\* the requests answered so far
Answered == IF dup_call = NotRun THEN 0 ELSE dup_call.n

create_audio_file(english_text) ==
    LET existing_audio_file == check_audio_file_duplicate(Db, english_text)
        id == Len(audio_files) + 1
    IN  /\ Answered < MaxRequests
        /\ dup_call' = [n |-> Answered + 1, op |-> "create_audio_file",
                        english_text |-> english_text]
        /\ IF Strip(english_text) = <<>>
           THEN /\ response' = [status_code |-> 400,
                                detail |-> "English text is required"]
                /\ UNCHANGED <<audio_files, background_tasks>>
           ELSE IF existing_audio_file # NoRow
           THEN /\ response' = [status_code |-> 409,
                                detail |-> "Audio file with this English text already exists",
                                id |-> existing_audio_file]
                /\ UNCHANGED <<audio_files, background_tasks>>
           ELSE /\ audio_files' =
                       Append(audio_files, NewAudioFile(Strip(english_text)))
                /\ background_tasks' =
                       Append(background_tasks,
                              [func |-> "generate_audio_files_background",
                               audio_file_id |-> id,
                               english_text |-> Strip(english_text)])
                /\ response' = [status_code |-> 200, id |-> id,
                                english_text |-> Strip(english_text)]
        /\ UNCHANGED <<segments, templates, files, segVars, phVars, clVars,
                       ccVars, generation_progress, now, task, pc,
                       vidVars, pubVars, clnVars, svc_log, lastVars>>

create_template(category, title, english_text) ==
    LET existing_template == check_template_duplicate(Db, english_text)
        id == Len(templates) + 1
    IN  /\ Answered < MaxRequests
        /\ dup_call' = [n |-> Answered + 1, op |-> "create_template",
                        category |-> category, title |-> title,
                        english_text |-> english_text]
        /\ IF existing_template # NoRow
           THEN /\ response' = [status_code |-> 409,
                                detail |-> "Template with this English text already exists",
                                id |-> existing_template]
                /\ UNCHANGED templates
           ELSE /\ templates' =
                       Append(templates,
                              NewTemplate(category, title, Strip(english_text)))
                /\ response' = [status_code |-> 200, id |-> id,
                                english_text |-> Strip(english_text)]
        /\ UNCHANGED <<audio_files, segments, files, segVars, phVars, clVars,
                       ccVars, generation_progress, now, task, pc,
                       vidVars, pubVars, clnVars, background_tasks, svc_log,
                       lastVars>>

\* the soft delete of an audio file, its clips removed from the disk
delete_audio_file(audio_file_id) ==
    LET found == /\ audio_file_id \in DOMAIN audio_files
                 /\ audio_files[audio_file_id].is_active
        audio_paths == {AudioColumn(audio_files[audio_file_id], l) :
                           l \in Languages} \ {NoPath}
        removed == {OnDisk(q) : q \in audio_paths}
    IN  /\ Answered < MaxRequests
        /\ dup_call' = [n |-> Answered + 1, op |-> "delete_audio_file",
                        audio_file_id |-> audio_file_id]
        /\ IF ~found
           THEN /\ response' = [status_code |-> 404,
                                detail |-> "Audio file not found"]
                /\ UNCHANGED <<audio_files, files>>
           ELSE /\ files' = [q \in DOMAIN files \ removed |-> files[q]]
                /\ audio_files' =
                       [audio_files EXCEPT ![audio_file_id].is_active = FALSE]
                /\ response' = [status_code |-> 200,
                                audio_file_id |-> audio_file_id]
        /\ UNCHANGED <<segments, templates, segVars, phVars, clVars,
                       ccVars, generation_progress, now, task, pc,
                       vidVars, pubVars, clnVars, background_tasks, svc_log,
                       lastVars>>

\* the texts sent: two texts, one of them with spaces around it, and a blank
DupTexts == { <<"Welcome">>, <<" ", "Welcome">>, <<"Welcome", " ">>,
              <<"Mind the gap">>, <<" ">> }

\* the category and title sent with a template
DupHeadings == { <<"arrival", "Test Template">>,
                 <<"delay", "Test Template 2">> }

DupInit == CoreIdle /\ ExtIdle("dup") /\ dup_call = NotRun /\ background_tasks = <<>>

DupNext ==
    \/ \E english_text \in DupTexts : create_audio_file(english_text)
    \/ \E h \in DupHeadings, english_text \in DupTexts :
           create_template(h[1], h[2], english_text)
    \/ \E audio_file_id \in DOMAIN audio_files :
           delete_audio_file(audio_file_id)
    \/ \E template_id \in DOMAIN templates : delete_template(template_id)

DupSpec == DupInit /\ [][DupNext]_vars

\* the request answered by the step is a creation of the given kind
Creation(op) == dup_call' # dup_call /\ dup_call'.op = op

\* an active row of the table holds the text
Holds(table, text) ==
    \E i \in DOMAIN table : table[i].is_active /\ table[i].english_text = text

\* C16: creating an audio file whose trimmed English text is that of an
\* active audio file is answered 409, adds no row and starts no background
\* generation; a creation with a text no active audio file holds succeeds.
C16_DuplicateAudioFileRejected ==
    [][ Creation("create_audio_file") =>
          LET text == Strip(dup_call'.english_text)
          IN  IF Holds(audio_files, text)
              THEN /\ response'.status_code = 409
                   /\ audio_files' = audio_files
                   /\ background_tasks' = background_tasks
              ELSE text # <<>> =>
                   /\ response'.status_code = 200
                   /\ audio_files' = Append(audio_files, NewAudioFile(text))
                   /\ Len(background_tasks') = Len(background_tasks) + 1 ]_vars

\* a text sent with a space around it is refused because of the row its
\* first creation added, and one background generation was started
C16_Witness ==
    /\ dup_call # NotRun /\ dup_call.op = "create_audio_file"
    /\ dup_call.n = 2
    /\ dup_call.english_text # Strip(dup_call.english_text)
    /\ response # NotRun /\ response.status_code = 409
    /\ Len(audio_files) = 1 /\ Len(background_tasks) = 1

\* C17: creating a template whose trimmed English text is that of an active
\* template is answered 409 and adds no row, whatever the category and the
\* title; otherwise the template is created, whatever the audio files hold.
C17_DuplicateTemplateRejected ==
    [][ Creation("create_template") =>
          LET text == Strip(dup_call'.english_text)
          IN  IF Holds(templates, text)
              THEN /\ response'.status_code = 409
                   /\ templates' = templates
              ELSE /\ response'.status_code = 200
                   /\ templates' =
                          Append(templates,
                                 NewTemplate(dup_call'.category,
                                             dup_call'.title, text)) ]_vars

\* after an audio file and a template were created with one text, a template
\* with that text under another category and title is refused
C17_Witness ==
    /\ dup_call # NotRun /\ dup_call.op = "create_template"
    /\ dup_call.n = 3
    /\ response # NotRun /\ response.status_code = 409
    /\ Len(templates) = 1 /\ Len(audio_files) = 1
    /\ templates[1].is_active /\ audio_files[1].is_active
    /\ templates[1].english_text = audio_files[1].english_text
    /\ templates[1].category # dup_call.category
    /\ templates[1].title # dup_call.title

(***************************************************************************)
(* The Synthesizer and the flows that fall back on it.  A text is a        *)
(* sequence of atoms: words, single digits, the space and the full stop.   *)
(* No word drawn below is part of another, so a substring test on the      *)
(* strings is a test on runs of atoms.  The rows of the catalog are those  *)
(* of the Audio Files page: their template_id is NULL.                     *)
(***************************************************************************)
\* text.lower()
LowerText(text) == [i \in 1..Len(text) |-> Lower(text[i])]

\* re.sub(r'\d', replace_digit, text)
convert_digits_to_words(text) == [i \in 1..Len(text) |-> DigitToWord(text[i])]

\* len() of an atom, of a text
AtomLen(atom) ==
    CASE atom \in {" ", "."} \cup Digits -> 1
      [] atom \in {"one", "two"} -> 3
      [] atom \in {"late", "halt"} -> 4
      [] OTHER -> 5

RECURSIVE TextLen(_)
TextLen(text) == IF text = <<>> THEN 0 ELSE AtomLen(Head(text)) + TextLen(Tail(text))

\* column.ilike(f"%{pattern}%")
ILike(column, pattern) == Contains(LowerText(column), LowerText(pattern))

\* word.strip('.,!?;:()[]{}"\'')
StripPunctuation(word) ==
    LET keep == {i \in 1..Len(word) : word[i] \notin {".", ",", "!", "?"}}
    IN  IF keep = {} THEN <<>>
        ELSE LET lo == CHOOSE i \in keep : \A k \in keep : i <= k
                 hi == CHOOSE i \in keep : \A k \in keep : i >= k
             IN  SubSeq(word, lo, hi)

\* f"/var/www{audio_path}" where the file exists, else nothing
FullPathOnDisk(fs, audio_path) ==
    IF audio_path # NoPath /\ Exists(fs, OnDisk(audio_path))
    THEN OnDisk(audio_path) ELSE NoPath

\* the first of the row's clips, in the order of the languages, that is on disk
RECURSIVE FirstOnDisk(_, _, _)
FirstOnDisk(fs, row, order) ==
    IF order = <<>> THEN NoPath
    ELSE LET full_path == FullPathOnDisk(fs, AudioColumn(row, Head(order)))
         IN  IF full_path # NoPath THEN full_path
             ELSE FirstOnDisk(fs, row, Tail(order))

\* sum(1 for word in words if word in af_text)
MatchingWords(words, af_text) ==
    Cardinality({i \in 1..Len(words) : Contains(af_text, words[i])})

\* the row the partial search keeps: the first one of the highest score, the
\* score being at least one half
BestPartialMatch(db, words) ==
    LET af_text(i) == convert_digits_to_words(LowerText(db.audio_files[i].english_text))
        good == {i \in DOMAIN db.audio_files :
                    /\ db.audio_files[i].is_active
                    /\ words # <<>>
                    /\ MatchingWords(words, af_text(i)) > 0
                    /\ 2 * MatchingWords(words, af_text(i)) >= Len(words)}
        best == {i \in good : \A k \in good :
                    MatchingWords(words, af_text(i)) >= MatchingWords(words, af_text(k))}
    IN  FirstRow(best)

\* the clip of the Audio Files page for the whole text, NoPath for None
find_complete_audio_file(db, fs, english_text) ==
    LET search_text == convert_digits_to_words(LowerText(Strip(english_text)))
        audio_file == FirstRow({i \in DOMAIN db.audio_files :
                                   /\ ILike(db.audio_files[i].english_text, search_text)
                                   /\ db.audio_files[i].is_active})
        complete == IF audio_file = NoRow THEN NoPath
                    ELSE FirstOnDisk(fs, db.audio_files[audio_file],
                                     <<"english", "marathi", "hindi", "gujarati">>)
        best_match == BestPartialMatch(db, Split(search_text))
    IN  IF complete # NoPath THEN complete
        ELSE IF best_match = NoRow THEN NoPath
        ELSE FullPathOnDisk(fs, db.audio_files[best_match].english_audio_path)

\* language_mapping.get(language) of find_existing_audio_file
DbField(language) ==
    CASE language = "English" -> "english" [] language = "Hindi" -> "hindi"
      [] language = "Marathi" -> "marathi" [] language = "Gujarati" -> "gujarati"

\* the clip of the Audio Files page for one word in one language
find_existing_audio_file(db, fs, word, language) ==
    LET word_lower == convert_digits_to_words(LowerText(Strip(word)))
        af_text(i) == convert_digits_to_words(LowerText(db.audio_files[i].english_text))
        hits == {i \in DOMAIN db.audio_files :
                    /\ ILike(db.audio_files[i].english_text, word_lower)
                    /\ db.audio_files[i].is_active
                    /\ Contains(af_text(i), word_lower)
                    /\ TextLen(word_lower) > 0}
        best == {i \in hits : \A k \in hits :
                    TextLen(af_text(i)) <= TextLen(af_text(k))}
        best_match == FirstRow(best)
    IN  IF best_match = NoRow THEN NoPath
        ELSE FullPathOnDisk(fs, AudioColumn(db.audio_files[best_match],
                                            DbField(language)))

\* voice_mapping.get(language, "en-IN-Standard-A")
VoiceName(language) ==
    CASE language = "English" -> "en-IN-Standard-A"
      [] language = "Hindi" -> "hi-IN-Standard-A"
      [] language = "Marathi" -> "mr-IN-Standard-A"
      [] language = "Gujarati" -> "gu-IN-Standard-A"
      [] OTHER -> "en-IN-Standard-A"

\* what the Synthesizer returns for a text and a voice
Speech(text, voice_name) == <<"speech", JoinAtoms(text), voice_name>>

\* f"temp_audio_{text_hash}_{timestamp}.mp3" under /tmp
TempPath(text, timestamp) ==
    <<"/tmp", "temp_audio_" \o JoinAtoms(text) \o "_" \o ToString(timestamp) \o ".mp3">>

\* the file system with one file written
WriteFile(fs, path, audio) ==
    [q \in DOMAIN fs \cup {path} |->
        IF q = path THEN [loadable |-> TRUE, audio |-> audio] ELSE fs[q]]

\* one call of the Synthesizer for the text, the reply saved under /tmp
generate_audio_file(fs, text, language, timestamp, tts_ok) ==
    IF tts_ok
    THEN [raised |-> FALSE, path |-> TempPath(text, timestamp),
          files |-> WriteFile(fs, TempPath(text, timestamp),
                              <<Speech(text, VoiceName(language))>>)]
    ELSE [raised |-> TRUE, path |-> NoPath, files |-> fs]

\* f"merged_speech_to_isl_{timestamp}.mp3" in the output directory
MergedSpeechPath(timestamp) ==
    audio_dir \o <<"merged_speech_to_isl",
                   "merged_speech_to_isl_" \o Timestamp(timestamp) \o ".mp3">>

\* ffmpeg -f concat: the listed files one after the other
merge_audio_files(fs, audio_paths, timestamp, ffmpeg_ok) ==
    IF audio_paths = <<>> THEN [raised |-> TRUE, path |-> NoPath, files |-> fs]
    ELSE IF Len(audio_paths) = 1
    THEN [raised |-> FALSE, path |-> audio_paths[1], files |-> fs]
    ELSE IF ~ffmpeg_ok \/ \E i \in 1..Len(audio_paths) : ~Exists(fs, audio_paths[i])
    THEN [raised |-> TRUE, path |-> NoPath, files |-> fs]
    ELSE [raised |-> FALSE, path |-> MergedSpeechPath(timestamp),
          files |-> WriteFile(fs, MergedSpeechPath(timestamp),
                       Flatten([i \in 1..Len(audio_paths) |-> fs[audio_paths[i]].audio]))]

\* the words of the text, cleaned, that are not empty
CleanWords(english_text) ==
    LET english_words == Split(LowerText(english_text))
        clean == [i \in 1..Len(english_words) |->
                     LowerText(StripPunctuation(english_words[i]))]
    IN  SelectSeq(clean, LAMBDA w : w # <<>>)

\* the clips found for the words, language by language
WordClips(db, fs, english_text) ==
    LET words == CleanWords(english_text)
        languages_to_search == <<"English", "Hindi", "Marathi", "Gujarati">>
        found(lang) ==
            SelectSeq([i \in 1..Len(words) |->
                          find_existing_audio_file(db, fs, words[i], lang)],
                      LAMBDA q : q # NoPath)
    IN  Flatten([k \in 1..4 |-> found(languages_to_search[k])])

languages_to_generate == <<"English", "Hindi", "Marathi", "Gujarati">>

\* the loop of the fallback given up at the first language that fails
RECURSIVE FallbackLoopAborting(_, _, _, _, _)
FallbackLoopAborting(acc, english_text, rest, failing, clock) ==
    IF rest = <<>> \/ english_text = NoText THEN acc
    ELSE LET lang == Head(rest)
             r == generate_audio_file(acc.files, english_text, lang, clock[lang],
                                      lang \notin failing)
             call == [text |-> english_text, language |-> lang,
                      ok |-> ~r.raised]
         IN  IF r.raised THEN [acc EXCEPT !.tts = Append(@, call)]
             ELSE FallbackLoopAborting(
                      [files |-> r.files,
                       fallback_audio_files |-> Append(acc.fallback_audio_files, r.path),
                       tts |-> Append(acc.tts, call)],
                      english_text, Tail(rest), failing, clock)

\* lines 506-517: one Synthesizer call per language, a failure skipped
RECURSIVE FallbackLoop(_, _, _, _, _)
FallbackLoop(acc, english_text, rest, failing, clock) ==
    IF rest = <<>> \/ english_text = NoText THEN acc
    ELSE LET lang == Head(rest)
             r == generate_audio_file(acc.files, english_text, lang, clock[lang],
                                      lang \notin failing)
             call == [text |-> english_text, language |-> lang,
                      ok |-> ~r.raised]
         IN  FallbackLoop(
                 [files |-> r.files,
                  fallback_audio_files |->
                      IF r.raised THEN acc.fallback_audio_files
                      ELSE Append(acc.fallback_audio_files, r.path),
                  tts |-> Append(acc.tts, call)],
                 english_text, Tail(rest), failing, clock)

NoSpeech ==
    [raised |-> FALSE, path |-> NoPath, found |-> <<>>, tts |-> <<>>,
     fallback_audio_files |-> <<>>]

\* the call: the path returned or the exception, the clips the catalog gave,
\* the Synthesizer calls made and the files as the call leaves them.  clock
\* gives the second at which each language is generated and the merge runs.
generate_merged_audio(db, fs, english_text, failing, clock, ffmpeg_ok) ==
    LET complete_audio_file == find_complete_audio_file(db, fs, english_text)
        all_language_audio_files == WordClips(db, fs, english_text)
        loop == FallbackLoop([files |-> fs, fallback_audio_files |-> <<>>,
                              tts |-> <<>>],
                             english_text, languages_to_generate, failing, clock)
        default_text == IF english_text # NoText THEN english_text
                        ELSE <<"No text available">>
        default == generate_audio_file(loop.files, default_text, "English",
                                       clock["default"], "default" \notin failing)
        default_call == [text |-> default_text, language |-> "English",
                         ok |-> ~default.raised]
    IN  IF complete_audio_file # NoPath
        THEN [out |-> [NoSpeech EXCEPT !.path = complete_audio_file,
                                       !.found = <<complete_audio_file>>],
              files |-> fs]
        ELSE IF all_language_audio_files # <<>>
        THEN LET m == merge_audio_files(fs, all_language_audio_files,
                                        clock["merge"], ffmpeg_ok)
             IN  [out |-> [NoSpeech EXCEPT !.raised = m.raised, !.path = m.path,
                                           !.found = all_language_audio_files],
                  files |-> m.files]
        ELSE IF loop.fallback_audio_files # <<>>
        THEN LET m == merge_audio_files(loop.files, loop.fallback_audio_files,
                                        clock["merge"], ffmpeg_ok)
             IN  [out |-> [NoSpeech EXCEPT
                              !.raised = m.raised, !.path = m.path,
                              !.tts = loop.tts,
                              !.fallback_audio_files = loop.fallback_audio_files],
                  files |-> m.files]
        ELSE [out |-> [NoSpeech EXCEPT
                          !.raised = default.raised, !.path = default.path,
                          !.tts = Append(loop.tts, default_call),
                          !.fallback_audio_files =
                              IF default.raised THEN <<>> ELSE <<default.path>>],
              files |-> default.files]

(***************************************************************************)
(* routes/audio_files.py: the audio of one text in one language, and the   *)
(* background generation of the four clips of an audio file.               *)
(***************************************************************************)
\* ''.join(c for c in word if c.isalnum())
AlphaNumeric(word) == SelectSeq(word, LAMBDA c : c \notin {".", ",", "!", "?"})

\* the clip of the active row whose english_text is the word, NoPath without
WordAudioPath(db, clean_word, language) ==
    LET word_audio == FirstRow({i \in DOMAIN db.audio_files :
                                   /\ db.audio_files[i].english_text = clean_word
                                   /\ db.audio_files[i].is_active})
    IN  IF word_audio = NoRow THEN NoPath
        ELSE AudioColumn(db.audio_files[word_audio], language)

\* what the lookup returns: one path (kind "str"), the paths of the words
\* (kind "list"), or None
find_existing_audio_for_text(db, text, language) ==
    LET audio_file == FirstRow({i \in DOMAIN db.audio_files :
                                   /\ db.audio_files[i].english_text = text
                                   /\ db.audio_files[i].is_active})
        exact == IF audio_file = NoRow THEN NoPath
                 ELSE AudioColumn(db.audio_files[audio_file], language)
        words == Split(LowerText(text))
        clean == SelectSeq([i \in 1..Len(words) |-> AlphaNumeric(words[i])],
                           LAMBDA w : w # <<>>)
        word_audio_paths == [i \in 1..Len(clean) |->
                                WordAudioPath(db, clean[i], language)]
    IN  IF exact # NoPath THEN [kind |-> "str", paths |-> <<exact>>]
        ELSE IF \E i \in 1..Len(clean) : word_audio_paths[i] = NoPath
        THEN [kind |-> None, paths |-> <<>>]
        ELSE IF Len(word_audio_paths) = Len(words)
        THEN [kind |-> "list", paths |-> word_audio_paths]
        ELSE [kind |-> None, paths |-> <<>>]

\* f"audio_{language}_{timestamp}_{hash(text) % 10000}.mp3" in the audio directory
SingleFilename(text, language, timestamp) ==
    "audio_" \o language \o "_" \o Timestamp(timestamp) \o "_"
        \o JoinAtoms(text) \o ".mp3"

\* generate_speech: "ok" writes the reply, "small" a reply of at most 1000
\* bytes (a file without audio), "raises" nothing
generate_speech(fs, text, filepath, voice_name, tts) ==
    CASE tts = "ok" -> WriteFile(fs, filepath, <<Speech(text, voice_name)>>)
      [] tts = "small" -> WriteFile(fs, filepath, <<>>)
      [] tts = "raises" -> fs

\* Config.TTS_VOICES[language.capitalize()]
TtsVoice(language) ==
    CASE language = "english" -> "en-IN-Chirp3-HD-Achernar"
      [] language = "marathi" -> "mr-IN-Chirp3-HD-Achernar"
      [] language = "hindi" -> "hi-IN-Chirp3-HD-Achernar"
      [] language = "gujarati" -> "gu-IN-Chirp3-HD-Achernar"

\* os.path.getsize(filepath) > 1000
LargeEnough(fs, filepath) == fs[filepath].audio # <<>>

\* lines 811-882: the handler once the lookup has answered existing_audio:
\* the response, the clips the catalog gave, the Synthesizer calls made and
\* the files as it leaves them
SingleLanguageFrom(existing_audio, fs, text, language, timestamp, tts, ffmpeg_ok) ==
    LET filename == SingleFilename(text, language, timestamp)
        filepath == audio_dir \o <<filename>>
        voice_config == TtsVoice(language)
        full_paths == [i \in 1..Len(existing_audio.paths) |->
                          OnDisk(existing_audio.paths[i])]
        listed == SelectSeq(full_paths, LAMBDA q : Exists(fs, q))
        call == [text |-> Strip(text), language |-> language, ok |-> tts # "raises"]
        spoken == [files |-> generate_speech(fs, Strip(text), filepath,
                                             voice_config, tts),
                   tts |-> <<call>>, raised |-> tts = "raises"]
        copied(audio) == [files |-> WriteFile(fs, filepath, audio),
                          tts |-> <<>>, raised |-> FALSE]
        made ==
            IF existing_audio.kind = "str" /\ existing_audio.paths # <<>>
            THEN IF Exists(fs, full_paths[1])
                 THEN copied(fs[full_paths[1]].audio)
                 ELSE spoken
            ELSE IF existing_audio.kind = "list" /\ existing_audio.paths # <<>>
            THEN IF ffmpeg_ok /\ listed # <<>>
                 THEN copied(Flatten([i \in 1..Len(listed) |-> fs[listed[i]].audio]))
                 ELSE spoken
            ELSE spoken
        found == IF existing_audio.kind = None THEN <<>> ELSE existing_audio.paths
    IN  IF made.raised \/ ~Exists(made.files, filepath)
           \/ ~LargeEnough(made.files, filepath)
        THEN [out |-> [status_code |-> 500, audio_path |-> NoPath,
                       found |-> found, tts |-> made.tts],
              files |-> made.files]
        ELSE [out |-> [status_code |-> 200,
                       audio_path |-> <<"/audio_files/", filename>>,
                       found |-> found, tts |-> made.tts],
              files |-> made.files]

\* the handler: the lookup, then the audio from what it found
single_language_audio(db, fs, text, language, timestamp, tts, ffmpeg_ok) ==
    SingleLanguageFrom(find_existing_audio_for_text(db, Strip(text), language),
                       fs, text, language, timestamp, tts, ffmpeg_ok)

\* translate_text of routes/audio_files.py: the text itself when the
\* Translator raises
translate_text(text, target_language, translator_ok) ==
    IF translator_ok THEN Translated(text, target_language) ELSE text

\* f"audio_{lang_name}_{timestamp}_{audio_file_id}.mp3"
ClipFilename(lang_name, timestamp, audio_file_id) ==
    "audio_" \o lang_name \o "_" \o Timestamp(timestamp) \o "_"
        \o ToString(audio_file_id) \o ".mp3"

\* setattr(audio_file, f"{lang_name}_audio_path", ...) and the same for the
\* translation
WithClip(row, lang_name, audio_path, translation) ==
    CASE lang_name = "english" ->
            [row EXCEPT !.english_audio_path = audio_path,
                        !.english_translation = translation]
      [] lang_name = "marathi" ->
            [row EXCEPT !.marathi_audio_path = audio_path,
                        !.marathi_translation = translation]
      [] lang_name = "hindi" ->
            [row EXCEPT !.hindi_audio_path = audio_path,
                        !.hindi_translation = translation]
      [] lang_name = "gujarati" ->
            [row EXCEPT !.gujarati_audio_path = audio_path,
                        !.gujarati_translation = translation]

\* lines 155-204: the loop over the languages; acc holds the files, the row
\* with what was stored for it, and the Synthesizer calls
RECURSIVE ClipLoop(_, _, _, _, _, _, _)
ClipLoop(acc, rest, english_text, timestamp, audio_file_id, untranslated, tts) ==
    IF rest = <<>> THEN acc
    ELSE LET lang_name == Head(rest)
             text == IF lang_name = "english" THEN english_text
                     ELSE translate_text(english_text, lang_name,
                                         lang_name \notin untranslated)
             filename == ClipFilename(lang_name, timestamp, audio_file_id)
             filepath == audio_dir \o <<filename>>
             fs == generate_speech(acc.files, text, filepath,
                                   TtsVoice(lang_name), tts[lang_name])
             call == [text |-> text, language |-> lang_name,
                      ok |-> tts[lang_name] # "raises"]
             stored == /\ tts[lang_name] # "raises"
                       /\ Exists(fs, filepath) /\ LargeEnough(fs, filepath)
             next == IF Strip(text) = <<>> THEN acc
                     ELSE [files |-> fs,
                           row |-> IF stored
                                   THEN WithClip(acc.row, lang_name,
                                                 <<"/audio_files/", filename>>, text)
                                   ELSE acc.row,
                           tts |-> Append(acc.tts, call)]
         IN  ClipLoop(next, Tail(rest), english_text, timestamp, audio_file_id,
                      untranslated, tts)

\* the background task of create_audio_file.  untranslated: the languages the
\* Translator fails for; tts: what the Synthesizer does for each language
generate_audio_files_background(audio_file_id, english_text, untranslated, tts) ==
    LET found == audio_file_id \in DOMAIN audio_files
        r == ClipLoop([files |-> files, row |-> audio_files[audio_file_id],
                       tts |-> <<>>],
                      languages, english_text, now, audio_file_id,
                      untranslated, tts)
    IN  /\ Len(svc_log) < MaxCalls
        /\ IF ~found
           THEN /\ svc_log' = Append(svc_log,
                       [op |-> "generate_audio_files_background",
                        audio_file_id |-> audio_file_id,
                        english_text |-> english_text,
                        found |-> FALSE])
                /\ UNCHANGED <<audio_files, files>>
           ELSE /\ svc_log' = Append(svc_log,
                       [op |-> "generate_audio_files_background",
                        audio_file_id |-> audio_file_id,
                        english_text |-> english_text,
                        found |-> TRUE,
                        before |-> audio_files[audio_file_id],
                        untranslated |-> untranslated,
                        timestamp |-> now,
                        tts |-> r.tts])
                /\ audio_files' = [audio_files EXCEPT ![audio_file_id] = r.row]
                /\ files' = r.files
        /\ UNCHANGED <<segments, templates, segVars, phVars, clVars, ccVars,
                       jobVars, vidVars, pubVars, clnVars, dupVars, lastVars>>

\* the clock readings of one call of generate_merged_audio: the second at
\* which each Synthesizer call and the merge run, the clock moving on by a
\* second before the steps of ticks
MergedSteps == <<"English", "Hindi", "Marathi", "Gujarati", "default", "merge">>

ClockOf(ticks) ==
    [st \in {MergedSteps[k] : k \in 1..Len(MergedSteps)} |->
        now + Cardinality({t \in ticks :
                              \E k \in 1..Len(MergedSteps) :
                                  MergedSteps[k] = st /\ t <= k})]

\* a call of generate_merged_audio with its default output directory
CallGenerateMergedAudio(english_text, failing, ticks, ffmpeg_ok) ==
    LET r == generate_merged_audio(Db, files, english_text, failing,
                                   ClockOf(ticks), ffmpeg_ok)
    IN  /\ Len(svc_log) < MaxCalls
        /\ now + Cardinality(ticks) <= MaxClock
        /\ svc_log' = Append(svc_log,
               [op |-> "generate_merged_audio", text |-> english_text,
                language |-> "any", out |-> r.out])
        /\ files' = r.files
        /\ now' = now + Cardinality(ticks)
        /\ UNCHANGED <<dbVars, segVars, phVars, clVars, ccVars,
                       generation_progress, task, pc, response,
                       vidVars, pubVars, clnVars, dupVars, lastVars>>

\* POST /audio-files/single-language
generate_single_language_audio(text, language, tts, ffmpeg_ok) ==
    LET r == single_language_audio(Db, files, text, language, now, tts, ffmpeg_ok)
        refused == [status_code |-> 400, audio_path |-> NoPath,
                    found |-> <<>>, tts |-> <<>>]
        bad == Strip(text) = <<>> \/ language \notin Languages
    IN  /\ Len(svc_log) < MaxCalls
        /\ svc_log' = Append(svc_log,
               [op |-> "generate_single_language_audio", text |-> Strip(text),
                language |-> language,
                out |-> IF bad THEN refused ELSE r.out])
        /\ files' = IF bad THEN files ELSE r.files
        /\ UNCHANGED <<dbVars, segVars, phVars, clVars, ccVars, jobVars,
                       vidVars, pubVars, clnVars, dupVars, lastVars>>

\* the texts sent, the catalogs the flows start from
SynTexts == { <<"late">>, <<"Train", " ", "late", ".">>, <<"halt">>, <<>> }

SynCatalogs ==
    { <<>>,
      <<AudioFileRow(<<"late">>, Languages, TRUE), NewAudioFile(<<"delay">>)>>,
      <<AudioFileRow(<<"train">>, {"english"}, TRUE),
        AudioFileRow(<<"Train", " ", "late">>, Languages, TRUE)>> }

\* the Synthesizer calls of the fallback that fail
SynFailing ==
    { {}, {"Hindi"},
      {"English", "Hindi", "Marathi", "Gujarati"},
      {"English", "Hindi", "Marathi", "Gujarati", "default"} }

\* what the Synthesizer does for the four clips of an audio file
SynOutcomes ==
    { [l \in Languages |-> "ok"],
      [l \in Languages |-> IF l = "hindi" THEN "raises" ELSE "ok"],
      [l \in Languages |-> IF l = "marathi" THEN "small" ELSE "ok"],
      [l \in Languages |-> "raises"] }

\* the tasks create_audio_file has queued and that have not run: one for each
\* row without a clip, and one whose row is gone
PendingTasks ==
    {[audio_file_id |-> i, english_text |-> audio_files[i].english_text] :
        i \in {k \in DOMAIN audio_files :
                  \A l \in Languages : AudioColumn(audio_files[k], l) = NoPath}}
    \cup {[audio_file_id |-> Len(audio_files) + 1, english_text |-> <<"late">>]}

SynInit ==
    /\ audio_files \in SynCatalogs /\ segments = <<>> /\ templates = <<>>
    /\ files \in {CatalogFiles, <<>>}
    /\ SegIdle /\ PhIdle /\ ClIdle /\ CcIdle /\ JobIdle
    /\ ExtIdle("svc") /\ svc_log = <<>>

SynNext ==
    \/ \E english_text \in SynTexts, failing \in SynFailing,
          ticks \in SUBSET (1..Len(MergedSteps)), ffmpeg_ok \in BOOLEAN :
           CallGenerateMergedAudio(english_text, failing, ticks, ffmpeg_ok)
    \/ \E text \in SynTexts, language \in {"english", "hindi", "tamil"},
          tts \in {"ok", "small", "raises"}, ffmpeg_ok \in BOOLEAN :
           generate_single_language_audio(text, language, tts, ffmpeg_ok)
    \/ \E t \in PendingTasks, untranslated \in {{}, {"hindi"}},
          tts \in SynOutcomes :
           generate_audio_files_background(t.audio_file_id, t.english_text,
                                           untranslated, tts)
    \/ PubTick

SynSpec == SynInit /\ [][SynNext]_vars

\* the entries of the log that are calls of the operation
CallsOf(op) == {i \in DOMAIN svc_log : svc_log[i].op = op}

\* the Synthesizer calls of an entry that returned audio
Spoken(calls) == SelectSeq(calls, LAMBDA c : c.ok)

\* the run of the fallback loop over the four languages, some call failing
C18_FallbackRuns ==
    {i \in CallsOf("generate_merged_audio") :
        /\ svc_log[i].text # NoText
        /\ svc_log[i].out.tts # <<>>
        /\ Spoken(svc_log[i].out.tts) # svc_log[i].out.tts}

\* the clip of a language was produced by the background generation e
C18_Produced(e, k) ==
    LET filepath == audio_dir \o <<ClipFilename(languages[k], e.timestamp,
                                                e.audio_file_id)>>
    IN  /\ e.tts[k].ok
        /\ Exists(files, filepath) /\ LargeEnough(files, filepath)

C19_Lookups ==
    CallsOf("generate_merged_audio") \cup CallsOf("generate_single_language_audio")

\* the call found no clip and the Synthesizer returned audio for it
C19_Synthesized(i) ==
    /\ svc_log[i].out.found = <<>>
    /\ Spoken(svc_log[i].out.tts) # <<>>

\* C19: once the Synthesizer returned audio for a text no clip matched, a
\* later lookup of the same text in the same language finds a clip and
\* makes no Synthesizer call; the Synthesizer is not called when the lookup
\* found a clip.
C19_CacheOnMiss ==
    /\ \A i \in C19_Lookups, j \in C19_Lookups :
          ( /\ i < j
            /\ svc_log[i].op = svc_log[j].op
            /\ svc_log[i].text = svc_log[j].text
            /\ svc_log[i].language = svc_log[j].language
            /\ C19_Synthesized(i) ) =>
                /\ svc_log[j].out.found # <<>>
                /\ svc_log[j].out.tts = <<>>
    /\ \A i \in C19_Lookups :
          svc_log[i].out.found # <<>> => svc_log[i].out.tts = <<>>

\* the same text is asked for twice in one language: no clip matches the
\* first time, the Synthesizer returns audio, and the second call finds no
\* clip either
C19_Witness ==
    /\ Len(svc_log) = 2
    /\ svc_log[1].op = "generate_single_language_audio"
    /\ svc_log[2].op = "generate_single_language_audio"
    /\ svc_log[2].text = svc_log[1].text
    /\ svc_log[2].language = svc_log[1].language
    /\ C19_Synthesized(1)
    /\ svc_log[1].out.status_code = 200
    /\ svc_log[2].out.found = <<>>
    /\ svc_log[2].out.tts # <<>>

(***************************************************************************)
(* The flows that call the Translator: the clips of an audio file (above), *)
(* the seeding of the templates, POST /translate and the speech to text.   *)
(***************************************************************************)
\* translate_text of routes/templates.py: the empty string when the
\* Translator raises
translate_text_for_seed(text, target_language, translator_ok) ==
    IF translator_ok THEN Translated(text, target_language) ELSE NoText

\* "... Train number {train_number} {train_name} from {start_station_name} to
\* {end_station_name}", the start of every sample text
SampleStart ==
    << "Attention please! Train number", " ", "{", "train_number", "}", " ",
       "{", "train_name", "}", " ", "from", " ", "{", "start_station_name", "}",
       " ", "to", " ", "{", "end_station_name", "}", " " >>

sample_templates ==
    << [category |-> "arrival", title |-> "Train Arrival Announcement",
        english_text |-> SampleStart \o
            <<"will arrive at platform number", " ", "{", "platform_number", "}">>],
       [category |-> "delay", title |-> "Train Delay Announcement",
        english_text |-> SampleStart \o <<"is running late.">>],
       [category |-> "cancellation", title |-> "Train Cancellation Announcement",
        english_text |-> SampleStart \o
            <<"has been cancelled. We regret the inconvenience caused.">>],
       [category |-> "platform_change", title |-> "Platform Change Announcement",
        english_text |-> SampleStart \o
            <<"will depart from platform number", " ", "{", "platform_number", "}",
              ". Please proceed to the new platform immediately.">>] >>

\* POST /templates/seed: the table is emptied and the samples are added, each
\* with the three translations
seed_templates(untranslated) ==
    /\ Len(svc_log) < MaxCalls
    /\ templates' =
           [i \in 1..Len(sample_templates) |->
               [NewTemplate(sample_templates[i].category, sample_templates[i].title,
                            sample_templates[i].english_text) EXCEPT
                   !.marathi_text = translate_text_for_seed(
                       sample_templates[i].english_text, "marathi",
                       "marathi" \notin untranslated),
                   !.hindi_text = translate_text_for_seed(
                       sample_templates[i].english_text, "hindi",
                       "hindi" \notin untranslated),
                   !.gujarati_text = translate_text_for_seed(
                       sample_templates[i].english_text, "gujarati",
                       "gujarati" \notin untranslated)]]
    /\ svc_log' = Append(svc_log,
           [op |-> "seed_templates", untranslated |-> untranslated,
            out |-> [success |-> TRUE,
                     templates_created |-> Len(sample_templates),
                     templates_cleared |-> Len(templates)]])
    /\ UNCHANGED <<audio_files, segments, files, segVars, phVars, clVars, ccVars,
                   jobVars, vidVars, pubVars, clnVars, dupVars, lastVars>>

\* Config.TARGET_LANGUAGES, by the name of the language
TARGET_LANGUAGES == <<"marathi", "hindi", "gujarati">>

\* f"Translation error: {str(e)}"
TranslationError == <<"Translation error: ">>

\* POST /translate: the HTTPException of the empty text is caught by the
\* handler's own except and answered 500
translate(text, untranslated) ==
    /\ Len(svc_log) < MaxCalls
    /\ svc_log' = Append(svc_log,
           [op |-> "translate", text |-> text, untranslated |-> untranslated,
            out |-> IF Strip(text) = <<>>
                    THEN [status_code |-> 500, success |-> FALSE,
                          original_text |-> text, translations |-> <<>>]
                    ELSE [status_code |-> 200, success |-> TRUE,
                          original_text |-> text,
                          translations |->
                              [l \in {TARGET_LANGUAGES[k] : k \in 1..3} |->
                                  IF l \in untranslated THEN TranslationError
                                  ELSE Translated(text, l)]]])
    /\ UNCHANGED <<dbVars, files, segVars, phVars, clVars, ccVars, jobVars,
                   vidVars, pubVars, clnVars, dupVars, lastVars>>

\* what the Translator gives for a text spoken in another language
TranslatedToEnglish(spoken_text) ==
    [i \in 1..Len(spoken_text) |->
        IF spoken_text[i] = " " THEN " " ELSE spoken_text[i] \o "@english"]

\* POST /api/speech-to-text.  recognized: what the Recognizer does, "raises",
\* "nothing" for no result, "speech" for the transcript
speech_to_text(language, recognized, transcript, translator_ok) ==
    LET spoken_text == Strip(transcript)
        english_text ==
            IF language # "english" /\ translator_ok
            THEN TranslatedToEnglish(spoken_text) ELSE spoken_text
    IN  /\ Len(svc_log) < MaxCalls
        /\ svc_log' = Append(svc_log,
               [op |-> "speech_to_text", language |-> language,
                translator_ok |-> translator_ok,
                out |-> IF language \notin Languages \/ recognized = "raises"
                        THEN [status_code |-> 500, success |-> FALSE,
                              spoken_text |-> NoText, english_text |-> NoText]
                        ELSE IF recognized = "nothing"
                        THEN [status_code |-> 200, success |-> FALSE,
                              spoken_text |-> NoText, english_text |-> NoText]
                        ELSE [status_code |-> 200, success |-> TRUE,
                              spoken_text |-> spoken_text,
                              english_text |-> english_text]])
        /\ UNCHANGED <<dbVars, files, segVars, phVars, clVars, ccVars, jobVars,
                       vidVars, pubVars, clnVars, dupVars, lastVars>>

\* the texts translated, the transcripts
TrTexts == { <<"Train", " ", "late">>, <<"delay">>, <<" ">> }

TrInit ==
    /\ audio_files \in {<<NewAudioFile(<<"delay">>)>>,
                        <<NewAudioFile(<<"Train", " ", "late">>)>>}
    /\ segments = <<>> /\ templates = <<>> /\ files = <<>>
    /\ SegIdle /\ PhIdle /\ ClIdle /\ CcIdle /\ JobIdle
    /\ ExtIdle("svc") /\ svc_log = <<>>

TrNext ==
    \/ \E t \in PendingTasks, untranslated \in SUBSET (Languages \ {"english"}),
          tts \in SynOutcomes :
           generate_audio_files_background(t.audio_file_id, t.english_text,
                                           untranslated, tts)
    \/ \E untranslated \in SUBSET (Languages \ {"english"}) :
           seed_templates(untranslated)
    \/ \E text \in TrTexts, untranslated \in SUBSET (Languages \ {"english"}) :
           translate(text, untranslated)
    \/ \E language \in Languages \cup {"tamil"},
          recognized \in {"raises", "nothing", "speech"},
          transcript \in TrTexts, translator_ok \in BOOLEAN :
           speech_to_text(language, recognized, transcript, translator_ok)

TrSpec == TrInit /\ [][TrNext]_vars

\* the text an entry of the log kept for a language whose translation failed
\* is the text that was to be translated
C20_OriginalKept(e, l) ==
    CASE e.op = "generate_audio_files_background" ->
            \A k \in 1..Len(e.tts) :
                e.tts[k].language = l => e.tts[k].text = e.english_text
      [] e.op = "translate" ->
            e.out.success /\ e.out.translations[l] = e.out.original_text
      [] e.op = "seed_templates" ->
            /\ e.out.success
            /\ \A i \in 1..Len(sample_templates) :
                  TemplateText(templates[i], l) = sample_templates[i].english_text

\* C20: a Translator call that fails does not abort the caller, which uses
\* the untranslated text for that language, in the generation of an audio
\* file, the seeding of the templates, the translate endpoint and the speech
\* to text.
C20_OriginalTextOnFailure ==
    svc_log # <<>> =>
        LET e == svc_log[Len(svc_log)]
        IN  /\ ( \/ (e.op = "generate_audio_files_background" /\ e.found)
                  \/ e.op = "seed_templates"
                  \/ (e.op = "translate" /\ Strip(e.text) # <<>>) ) =>
                   \A l \in e.untranslated : C20_OriginalKept(e, l)
            /\ (e.op = "speech_to_text" /\ e.out.success /\ ~e.translator_ok) =>
                   e.out.english_text = e.out.spoken_text

\* the templates were seeded while the Translator failed for Hindi
C20_Witness ==
    /\ svc_log # <<>>
    /\ svc_log[Len(svc_log)].op = "seed_templates"
    /\ svc_log[Len(svc_log)].untranslated = {"hindi"}
    /\ Len(templates) = Len(sample_templates)
    /\ templates[1].marathi_text # NoText
    /\ templates[1].hindi_text = NoText

(***************************************************************************)
(* The lookup of a literal text (get_existing_audio_for_text, lines        *)
(* 46-122): the segments of two templates and a catalog row are drawn, the *)
(* function is called for a text of template 1.                            *)
(***************************************************************************)
TxWords == { <<"late">>, <<"Train", " ", "late">>, <<"halt">> }
TxLanguages == {"english", "hindi"}

\* a segment row of the text: of template 1 in the language, or the same of
\* another template, in the other language, without a clip, or soft-deleted
TxKinds == {"own", "other_template", "other_language", "no_clip", "inactive"}

TxSegment(id, words, language, kind) ==
    LET lang == IF kind = "other_language"
                THEN CHOOSE l \in TxLanguages : l # language ELSE language
        template_id == IF kind = "other_template" THEN 2 ELSE 1
    IN  [ template_id |-> template_id,
          category |-> "arrival",
          segment_text |-> Translated(words, lang),
          language |-> lang,
          segment_order |-> id,
          audio_path |-> IF kind = "no_clip" THEN NoPath
                         ELSE SegmentPath("arrival", lang, id, template_id),
          is_active |-> kind # "inactive" ]

TxSegmentTables(language) ==
    {<<>>}
    \cup { <<TxSegment(1, w, language, k)>> : w \in TxWords, k \in TxKinds }
    \cup { <<TxSegment(1, w1, language, k1), TxSegment(2, w2, language, k2)>> :
             w1 \in TxWords, k1 \in TxKinds, w2 \in TxWords, k2 \in TxKinds }

TxCatalogs ==
    {<<>>}
    \cup { <<AudioFileRow(w, have, active)>> :
             w \in {<<"late">>, <<"Train", " ", "late">>},
             have \in {{}, Languages}, active \in BOOLEAN }

TxInit ==
    /\ \E language \in TxLanguages :
          /\ segments \in TxSegmentTables(language)
          /\ \E text \in { <<"late">>, <<" ", "late", " ">>, <<"halt">>, <<" ">> } :
                tx_in = [ done |-> TRUE, text |-> Translated(text, language),
                          language |-> language, template_id |-> 1 ]
    /\ audio_files \in TxCatalogs
    /\ templates = <<>>
    /\ tx_out = NotRun
    /\ NoFiles /\ SegIdle /\ PhIdle /\ ClIdle /\ CcIdle /\ JobIdle /\ ExtIdle("tx")

CallText ==
    /\ ~tx_out.done
    /\ tx_out' = [ done |-> TRUE,
                   path |-> get_existing_audio_for_text(tx_in.text, tx_in.language,
                                                        tx_in.template_id) ]
    /\ UNCHANGED <<coreVars, vidVars, pubVars, clnVars, dupVars, svc_log,
                   tx_in, read_log, tasks_run, clearing>>

TxNext == CallText

TxSpec == TxInit /\ [][TxNext]_vars

\* the active segments of the template in the language that have a clip
C24_Segments ==
    {i \in DOMAIN segments :
        /\ segments[i].template_id = tx_in.template_id
        /\ segments[i].language = tx_in.language
        /\ segments[i].is_active /\ segments[i].audio_path # NoPath}

C24_Exact == {i \in C24_Segments : segments[i].segment_text = Strip(tx_in.text)}

C24_Containing ==
    {i \in C24_Segments : Contains(segments[i].segment_text, Strip(tx_in.text))}

C24_Catalog ==
    {i \in DOMAIN audio_files :
        /\ audio_files[i].is_active
        /\ TextColumn(audio_files[i], tx_in.language) = Strip(tx_in.text)
        /\ AudioColumn(audio_files[i], tx_in.language) # NoPath}

NoNumberData ==
    [ train_name |-> <<"Rajdhani", " ", "Express">>,
      start_station_name |-> <<"Mumbai">>,
      end_station_name |-> <<"Surat">>,
      platform_number |-> <<"5">> ]

NoData == <<>>

ReqTemplates == {1, 2, 3}

ReqTrainData == {TrainData(<<"1", "2">>), NoPlatformData, NoNumberData, NoData}

ReqInit ==
    /\ \E active2 \in BOOLEAN :
          templates = << TemplateRow("arrival", JobText1, Languages, TRUE),
                         TemplateRow("arrival", JobText2, Languages, active2) >>
    /\ \E segments2 \in { HarvestedSegments(2, templates[2], {}),
                          HarvestedSegments(2, templates[2], {1}), <<>> } :
          segments = HarvestedSegments(1, templates[1], {}) \o segments2
    /\ audio_files = CatalogRows(Languages, {})
    /\ files = CatalogFiles
    /\ generation_progress = <<>>
    /\ now = 0
    /\ task = [j \in Jobs |-> IdleTask]
    /\ pc = [j \in Jobs |-> "idle"]
    /\ response = NotRun
    /\ SegIdle /\ PhIdle /\ ClIdle /\ CcIdle /\ ExtIdle("")

ReqNext ==
    \/ \E template_id \in ReqTemplates, train_data \in ReqTrainData :
           GenerateRequest(template_id, train_data)
    \/ \E j \in Jobs : TaskStep(j)
    \/ \E t \in Retired : delete_template(t)

ReqSpec == ReqInit /\ [][ReqNext]_vars

\* what the claim asks of a request
C30_Valid(template_id, train_data) ==
    /\ \E i \in DOMAIN templates : i = template_id /\ templates[i].is_active
    /\ \E i \in DOMAIN segments :
          segments[i].template_id = template_id /\ segments[i].is_active
    /\ required_fields \subseteq DOMAIN train_data

C30_JobStarted(template_id, train_data) ==
    \E j \in Jobs :
        /\ pc[j] = "idle" /\ pc'[j] = "queued"
        /\ task'[j].template_id = template_id
        /\ task'[j].train_data = train_data
        /\ \A k \in Jobs \ {j} : pc'[k] = pc[k] /\ task'[k] = task[k]

final_announcements_dir == audio_dir \o <<"final_announcements">>

\* os.listdir(final_announcements_dir): every file of the model ends in .mp3
ListFinalAnnouncements(fs) ==
    {p \in DOMAIN fs : Len(p) = 3 /\ SubSeq(p, 1, 2) = final_announcements_dir}

\* lines 993-994: the directory is listed
ClearAllList ==
    /\ clearing = NotRun
    /\ clearing' = [done |-> TRUE, listing |-> ListFinalAnnouncements(files),
                    deleted_files |-> {}, returned |-> FALSE]
    /\ response' = NotRun
    /\ UNCHANGED <<dbVars, files, segVars, phVars, clVars, ccVars,
                   generation_progress, now, task, pc,
                   vidVars, pubVars, clnVars, dupVars, svc_log,
                   txVars, read_log, tasks_run>>

\* lines 995-1002: one pass of the loop, in the order of the listing, which
\* is any order
ClearAllRemove(file_path) ==
    /\ clearing # NotRun /\ ~clearing.returned
    /\ file_path \in clearing.listing
    /\ files' = [p \in DOMAIN files \ {file_path} |-> files[p]]
    /\ clearing' = [clearing EXCEPT !.listing = @ \ {file_path},
                                    !.deleted_files = @ \cup {file_path}]
    /\ response' = NotRun
    /\ UNCHANGED <<dbVars, segVars, phVars, clVars, ccVars,
                   generation_progress, now, task, pc,
                   vidVars, pubVars, clnVars, dupVars, svc_log,
                   txVars, read_log, tasks_run>>

\* lines 1022-1028
ClearAllReturn ==
    /\ clearing # NotRun /\ ~clearing.returned
    /\ clearing.listing = {}
    /\ clearing' = [clearing EXCEPT !.returned = TRUE]
    /\ response' = [status_code |-> 200,
                    deleted_files_count |-> Cardinality(clearing.deleted_files)]
    /\ UNCHANGED <<dbVars, files, segVars, phVars, clVars, ccVars,
                   generation_progress, now, task, pc,
                   vidVars, pubVars, clnVars, dupVars, svc_log,
                   txVars, read_log, tasks_run>>

\* one accepted request, its task queued
ClrInit ==
    /\ templates = <<TemplateRow("arrival", JobText1, Languages, TRUE)>>
    /\ segments = HarvestedSegments(1, templates[1], {})
    /\ audio_files = CatalogRows(Languages, {})
    /\ files = CatalogFiles
    /\ generation_progress = <<>>
    /\ now = 0
    /\ task = [j \in Jobs |->
                  IF j = 1
                  THEN [IdleTask EXCEPT !.template_id = 1,
                                        !.train_data = TrainData(<<"1", "2">>)]
                  ELSE IdleTask]
    /\ pc = [j \in Jobs |-> IF j = 1 THEN "queued" ELSE "idle"]
    /\ response = NotRun
    /\ SegIdle /\ PhIdle /\ ClIdle /\ CcIdle /\ ExtIdle("")

ClrNext ==
    \/ \E j \in Jobs : TaskStep(j)
    \/ ClearAllList
    \/ \E file_path \in DOMAIN files : ClearAllRemove(file_path)
    \/ ClearAllReturn

ClrSpec == ClrInit /\ [][ClrNext]_vars

\* the per-language files of job j, in the order of the merge
C26_Outputs(j) ==
    [k \in 1..Len(sequence_languages) |->
        OnDisk(task[j].final_audio_files[sequence_languages[k]].audio_path)]

\* C26: the merge of a job that goes on to status completed finds the four
\* per-language files of the job on disk, and the merged file plays the four
\* in order.
C26_MergedFromAllFour ==
    [][\A j \in Jobs :
          (pc[j] = "merge" /\ pc'[j] = "set_completed") =>
              /\ \A k \in 1..Len(sequence_languages) :
                    Exists(files, C26_Outputs(j)[k])
              /\ files'[task'[j].merged_path].audio
                    = Flatten([k \in 1..Len(sequence_languages) |->
                                  files[C26_Outputs(j)[k]].audio])]_vars

\* a job has ended with status completed, clear-all having removed one of its
\* per-language files before the merge and the others after it
C26_Witness ==
    \E j \in Jobs :
        /\ pc[j] = "done" /\ Entry(j).status = "completed"
        /\ clearing # NotRun /\ clearing.returned
        /\ Cardinality(clearing.deleted_files) = 4
        /\ Exists(files, task[j].merged_path)
        /\ Len(files[task[j].merged_path].audio) < 4 * 3

(***************************************************************************)
(* The templates under create, update and delete (routes/templates.py,     *)
(* lines 77-147).  update_data is the request body as template.dict(       *)
(* exclude_unset=True) gives it: the fields that were sent.                *)
(***************************************************************************)
\* setattr(db_template, field, value) for the fields sent
WithUpdate(row, update_data) ==
    [ row EXCEPT
        !.english_text = IF "english_text" \in DOMAIN update_data
                         THEN update_data.english_text ELSE @,
        !.title = IF "title" \in DOMAIN update_data THEN update_data.title ELSE @,
        !.is_active = IF "is_active" \in DOMAIN update_data
                      THEN update_data.is_active ELSE @ ]

\* PUT /templates/{template_id}
update_template(template_id, update_data) ==
    LET found == template_id \in DOMAIN templates
    IN  /\ Answered < MaxRequests
        /\ dup_call' = [n |-> Answered + 1, op |-> "update_template",
                        template_id |-> template_id, update_data |-> update_data]
        /\ IF ~found
           THEN /\ response' = [status_code |-> 404, detail |-> "Template not found"]
                /\ UNCHANGED templates
           ELSE /\ templates' = [templates EXCEPT ![template_id] =
                                    WithUpdate(@, update_data)]
                /\ response' = [status_code |-> 200, id |-> template_id,
                                template |-> templates'[template_id]]
        /\ UNCHANGED <<audio_files, segments, files, segVars, phVars, clVars,
                       ccVars, generation_progress, now, task, pc,
                       vidVars, pubVars, clnVars, background_tasks, svc_log,
                       lastVars>>

TplTexts == { <<"Welcome">>, <<"Welcome", " ">>, <<"Mind the gap">> }

\* the bodies sent to update_template: a new text, a new title, a new active
\* status
TplUpdates ==
    { [english_text |-> t] : t \in TplTexts }
    \cup { [title |-> "Test Template 2"] }
    \cup { [is_active |-> b] : b \in BOOLEAN }

TplInit == CoreIdle /\ ExtIdle("dup") /\ dup_call = NotRun /\ background_tasks = <<>>

TplNext ==
    \/ \E english_text \in TplTexts :
           create_template("arrival", "Test Template", english_text)
    \/ \E template_id \in 1..(Len(templates) + 1), update_data \in TplUpdates :
           update_template(template_id, update_data)
    \/ \E template_id \in DOMAIN templates : delete_template(template_id)

TplSpec == TplInit /\ [][TplNext]_vars

\* C29: no two active templates have the same trimmed English text.
C29_ActiveTextsDiffer ==
    \A i \in DOMAIN templates : \A k \in DOMAIN templates :
        ( /\ i # k
          /\ templates[i].is_active /\ templates[k].is_active )
            => Strip(templates[i].english_text) # Strip(templates[k].english_text)

\* two templates were created and the text of one was updated
C29_Witness ==
    /\ Len(templates) = 2
    /\ dup_call # NotRun /\ dup_call.op = "update_template"
    /\ "english_text" \in DOMAIN dup_call.update_data
    /\ response # NotRun /\ response.status_code = 200
    /\ templates[1].is_active /\ templates[2].is_active

(***************************************************************************)
(* The background generation of an audio file (routes/audio_files.py,      *)
(* lines 126-210) next to the requests that create and delete audio files. *)
(* A task is run by a worker thread after the response: it reads its row,  *)
(* then generates the clips and commits, and requests are answered in      *)
(* between.  The commit writes the columns the task has set.               *)
(***************************************************************************)
\* the tasks of a function that were added and have not started
Queued(func) ==
    {k \in DOMAIN background_tasks :
        background_tasks[k].func = func /\ k \notin DOMAIN tasks_run}

Started(func) ==
    {k \in DOMAIN background_tasks :
        /\ background_tasks[k].func = func /\ k \in DOMAIN tasks_run
        /\ tasks_run[k].state = "running"}

TaskState(k, state) ==
    [i \in DOMAIN tasks_run \cup {k} |-> IF i = k THEN state ELSE tasks_run[i]]

\* lines 131-146: the row is read by its id, the timestamp is taken
AudioTaskBegin(k) ==
    LET t == background_tasks[k]
        found == t.audio_file_id \in DOMAIN audio_files
    IN  /\ k \in Queued("generate_audio_files_background")
        /\ tasks_run' = TaskState(k,
               [state |-> IF found THEN "running" ELSE "done",
                timestamp |-> now,
                is_active |-> found /\ audio_files[t.audio_file_id].is_active])
        /\ read_log' = Append(read_log,
               [op |-> "generate_audio_files_background", table |-> "audio_files",
                rows |-> IF found THEN <<audio_files[t.audio_file_id]>> ELSE <<>>])
        /\ response' = NotRun
        /\ UNCHANGED <<dbVars, files, segVars, phVars, clVars, ccVars,
                       generation_progress, now, task, pc,
                       vidVars, pubVars, clnVars, dupVars, svc_log,
                       txVars, clearing>>

\* lines 148-207: the loop over the languages and the commit
AudioTaskEnd(k, untranslated, tts) ==
    LET t == background_tasks[k]
        r == ClipLoop([files |-> files, row |-> audio_files[t.audio_file_id],
                       tts |-> <<>>],
                      languages, t.english_text, tasks_run[k].timestamp,
                      t.audio_file_id, untranslated, tts)
    IN  /\ k \in Started("generate_audio_files_background")
        /\ tasks_run' = TaskState(k, [tasks_run[k] EXCEPT !.state = "done"])
        /\ audio_files' = [audio_files EXCEPT ![t.audio_file_id] = r.row]
        /\ files' = r.files
        /\ response' = NotRun
        /\ UNCHANGED <<segments, templates, segVars, phVars, clVars, ccVars,
                       generation_progress, now, task, pc,
                       vidVars, pubVars, clnVars, dupVars, svc_log,
                       txVars, read_log, clearing>>

BgTexts == { <<"Welcome">>, <<"Mind the gap">> }

\* the Synthesizer answers every call, or fails every call
BgOutcomes ==
    { [l \in Languages |-> "ok"], [l \in Languages |-> "raises"] }

BgInit == CoreIdle /\ ExtIdle("dup") /\ dup_call = NotRun /\ background_tasks = <<>>

BgNext ==
    \/ \E english_text \in BgTexts : create_audio_file(english_text)
    \/ \E audio_file_id \in DOMAIN audio_files : delete_audio_file(audio_file_id)
    \/ \E k \in DOMAIN background_tasks : AudioTaskBegin(k)
    \/ \E k \in DOMAIN background_tasks, untranslated \in {{}, {"hindi"}},
          tts \in BgOutcomes :
           AudioTaskEnd(k, untranslated, tts)

BgSpec == BgInit /\ [][BgNext]_vars

\* the clips a background task writes for the record
ClipsOf(audio_file_id) ==
    {audio_dir \o <<ClipFilename(l, ts, audio_file_id)>> :
        l \in Languages, ts \in 0..MaxClock}

\* C28: a soft-deleted audio file stays as it is, inactive and with the audio
\* paths it has, and no clip of it is written to the disk.
C28_DeletedStaysUntouched ==
    [][\A i \in DOMAIN audio_files :
          ~audio_files[i].is_active =>
              /\ audio_files'[i] = audio_files[i]
              /\ (DOMAIN files' \ DOMAIN files) \cap ClipsOf(i) = {}]_vars

\* the task of an audio file has ended after the delete of the audio file,
\* which came while the task was running
C28_Witness ==
    \E k \in DOMAIN tasks_run :
        /\ tasks_run[k].state = "done" /\ tasks_run[k].is_active
        /\ ~audio_files[background_tasks[k].audio_file_id].is_active

(***************************************************************************)
(* The segments of a template (routes/announcement_audio.py): the generate *)
(* request, its background task, the reads of templates and segments and   *)
(* the soft deletes.  The task is run by a worker thread after the         *)
(* response: it reads the template, then generates the clips and commits   *)
(* the rows it added, and requests are answered in between.  Every read    *)
(* is written to read_log with the rows it returned or went on to use.     *)
(***************************************************************************)
Read(op, table, rows) ==
    read_log' = Append(read_log, [op |-> op, table |-> table, rows |-> rows])

\* the rows of a table that pass a filter, in id order
RowsWhere(table, ids) ==
    LET order == SelectSeq([i \in 1..Len(table) |-> i], LAMBDA i : i \in ids)
    IN  [k \in 1..Len(order) |-> table[order[k]]]

AnnFrame ==
    UNCHANGED <<audio_files, segVars, phVars, clVars, ccVars,
                generation_progress, now, task, pc,
                vidVars, pubVars, clnVars, svc_log, txVars, clearing>>

\* POST /announcement-audio/generate
generate_announcement_audio(template_id) ==
    LET template == FirstRow({i \in DOMAIN templates :
                                 i = template_id /\ templates[i].is_active})
        existing_segments == Cardinality({i \in DOMAIN segments :
                                 /\ segments[i].template_id = template_id
                                 /\ segments[i].is_active})
    IN  /\ Answered < MaxRequests
        /\ dup_call' = [n |-> Answered + 1, op |-> "generate_announcement_audio",
                        template_id |-> template_id]
        /\ IF template = NoRow
           THEN /\ response' = [status_code |-> 404,
                                detail |-> "Announcement template not found"]
                /\ Read("generate_announcement_audio", "templates", <<>>)
                /\ UNCHANGED background_tasks
           ELSE IF existing_segments > 0
           THEN /\ response' = [status_code |-> 409,
                                detail |-> "Audio segments already exist for this template"]
                /\ Read("generate_announcement_audio", "templates",
                        <<templates[template]>>)
                /\ UNCHANGED background_tasks
           ELSE /\ background_tasks' =
                       Append(background_tasks,
                              [func |-> "generate_announcement_audio_segments_background",
                               template_id |-> template_id])
                /\ Read("generate_announcement_audio", "templates",
                        <<templates[template]>>)
                /\ response' = [status_code |-> 200, template_id |-> template_id]
        /\ UNCHANGED <<templates, segments, files, tasks_run>>
        /\ AnnFrame

\* lines 113-123: the template is read by its id, the timestamp is taken
SegmentTaskBegin(k) ==
    LET t == background_tasks[k]
        found == t.template_id \in DOMAIN templates
    IN  /\ k \in Queued("generate_announcement_audio_segments_background")
        /\ tasks_run' = TaskState(k,
               [state |-> IF found THEN "running" ELSE "done",
                timestamp |-> now,
                template |-> IF found THEN templates[t.template_id] ELSE NotRun])
        /\ Read("generate_announcement_audio_segments_background", "templates",
                IF found THEN <<templates[t.template_id]>> ELSE <<>>)
        /\ response' = NotRun
        /\ UNCHANGED <<templates, segments, files, dupVars>>
        /\ AnnFrame

\* f"announcement_{template.category}_{lang_name}_segment_{i+1}_{timestamp}_{template_id}.mp3"
AnnouncementFilename(category, lang_name, order, timestamp, template_id) ==
    "announcement_" \o category \o "_" \o lang_name \o "_segment_"
        \o ToString(order) \o "_" \o Timestamp(timestamp) \o "_"
        \o ToString(template_id) \o ".mp3"

\* lines 134-143: the segments of the template's text in a language
LanguageSegments(template, lang_name) ==
    IF Strip(TemplateText(template, lang_name)) = <<>> THEN <<>>
    ELSE split_text_into_segments(TemplateText(template, lang_name))

\* lines 145-182: the rows added for a language the Synthesizer answers for
LanguageRows(template, template_id, lang_name, timestamp) ==
    LET texts == LanguageSegments(template, lang_name)
    IN  [i \in 1..Len(texts) |->
            [ template_id |-> template_id,
              category |-> template.category,
              segment_text |-> texts[i],
              language |-> lang_name,
              segment_order |-> i,
              audio_path |-> << "/audio_files/",
                                AnnouncementFilename(template.category, lang_name,
                                                     i, timestamp, template_id) >>,
              is_active |-> TRUE ]]

\* the clips written for a language: path -> file
LanguageClips(template, template_id, lang_name, timestamp) ==
    LET rows == LanguageRows(template, template_id, lang_name, timestamp)
    IN  [p \in {OnDisk(rows[i].audio_path) : i \in DOMAIN rows} |->
            LET i == CHOOSE n \in DOMAIN rows : OnDisk(rows[n].audio_path) = p
            IN  [loadable |-> TRUE,
                 audio |-> <<Speech(rows[i].segment_text, TtsVoice(lang_name))>>]]

\* lines 126-192: the loops over the languages and their segments, and the
\* commit.  answered: the languages the Synthesizer answers for
SegmentTaskEnd(k, answered) ==
    LET t == background_tasks[k]
        template == tasks_run[k].template
        timestamp == tasks_run[k].timestamp
        rows == Flatten([n \in 1..Len(languages) |->
                    IF languages[n] \in answered
                    THEN LanguageRows(template, t.template_id, languages[n],
                                      timestamp)
                    ELSE <<>>])
        clips == [l \in answered |->
                     LanguageClips(template, t.template_id, l, timestamp)]
        written == UNION {DOMAIN clips[l] : l \in answered}
    IN  /\ k \in Started("generate_announcement_audio_segments_background")
        /\ tasks_run' = TaskState(k, [tasks_run[k] EXCEPT !.state = "done"])
        /\ segments' = segments \o rows
        /\ files' = [p \in DOMAIN files \cup written |->
                        IF p \in written
                        THEN clips[CHOOSE l \in answered : p \in DOMAIN clips[l]][p]
                        ELSE files[p]]
        /\ response' = NotRun
        /\ UNCHANGED <<templates, dupVars, read_log>>
        /\ AnnFrame

\* GET /templates/{template_id}
get_template(template_id) ==
    LET template == FirstRow({i \in DOMAIN templates : i = template_id})
    IN  /\ Answered < MaxRequests
        /\ dup_call' = [n |-> Answered + 1, op |-> "get_template",
                        template_id |-> template_id]
        /\ IF template = NoRow
           THEN /\ response' = [status_code |-> 404, detail |-> "Template not found"]
                /\ Read("get_template", "templates", <<>>)
           ELSE /\ response' = [status_code |-> 200, id |-> template]
                /\ Read("get_template", "templates", <<templates[template]>>)
        /\ UNCHANGED <<templates, segments, files, background_tasks, tasks_run>>
        /\ AnnFrame

\* GET /templates with the query parameter is_active as it is sent ("true",
\* "false"), None when it is not given
get_templates(is_active) ==
    LET hits == {i \in DOMAIN templates :
                    is_active = None
                    \/ templates[i].is_active = (is_active = "true")}
    IN  /\ Answered < MaxRequests
        /\ dup_call' = [n |-> Answered + 1, op |-> "get_templates",
                        is_active |-> is_active]
        /\ response' = [status_code |-> 200, ids |-> hits]
        /\ Read("get_templates", "templates", RowsWhere(templates, hits))
        /\ UNCHANGED <<templates, segments, files, background_tasks, tasks_run>>
        /\ AnnFrame

\* GET /announcement-audio/segments/{template_id}
get_announcement_audio_segments(template_id) ==
    LET template == FirstRow({i \in DOMAIN templates :
                                 i = template_id /\ templates[i].is_active})
        hits == {i \in DOMAIN segments :
                    segments[i].template_id = template_id /\ segments[i].is_active}
    IN  /\ Answered < MaxRequests
        /\ dup_call' = [n |-> Answered + 1, op |-> "get_announcement_audio_segments",
                        template_id |-> template_id]
        /\ IF template = NoRow
           THEN /\ response' = [status_code |-> 404,
                                detail |-> "Announcement template not found"]
                /\ Read("get_announcement_audio_segments", "segments", <<>>)
           ELSE /\ response' = [status_code |-> 200, ids |-> hits]
                /\ Read("get_announcement_audio_segments", "segments",
                        RowsWhere(segments, hits))
        /\ UNCHANGED <<templates, segments, files, background_tasks, tasks_run>>
        /\ AnnFrame

\* DELETE /announcement-audio/segments/{segment_id}
delete_announcement_audio_segment(segment_id) ==
    LET segment == FirstRow({i \in DOMAIN segments :
                                i = segment_id /\ segments[i].is_active})
    IN  /\ Answered < MaxRequests
        /\ dup_call' = [n |-> Answered + 1,
                        op |-> "delete_announcement_audio_segment",
                        segment_id |-> segment_id]
        /\ IF segment = NoRow
           THEN /\ response' = [status_code |-> 404,
                                detail |-> "Audio segment not found"]
                /\ UNCHANGED <<segments, files>>
           ELSE /\ files' = [p \in DOMAIN files \ {OnDisk(segments[segment].audio_path)}
                               |-> files[p]]
                /\ segments' = [segments EXCEPT ![segment].is_active = FALSE]
                /\ response' = [status_code |-> 200, segment_id |-> segment_id]
        /\ UNCHANGED <<templates, background_tasks, tasks_run, read_log>>
        /\ AnnFrame

\* one template with an English and a Hindi text
AnnInit ==
    /\ templates = <<TemplateRow("arrival", JobText1, {"hindi"}, TRUE)>>
    /\ segments = <<>> /\ audio_files = <<>> /\ NoFiles
    /\ SegIdle /\ PhIdle /\ ClIdle /\ CcIdle /\ JobIdle
    /\ ExtIdle("dup") /\ dup_call = NotRun /\ background_tasks = <<>>

AnnNext ==
    \/ \E template_id \in 1..(Len(templates) + 1) :
           generate_announcement_audio(template_id)
    \/ \E k \in DOMAIN background_tasks : SegmentTaskBegin(k)
    \/ \E k \in DOMAIN background_tasks, answered \in {{"hindi"}, Languages} :
           SegmentTaskEnd(k, answered)
    \/ \E template_id \in DOMAIN templates : get_template(template_id)
    \/ \E is_active \in {None, "true", "false"} : get_templates(is_active)
    \/ \E template_id \in DOMAIN templates :
           get_announcement_audio_segments(template_id)
    \/ \E segment_id \in DOMAIN segments :
           delete_announcement_audio_segment(segment_id)
    \/ \E template_id \in DOMAIN templates : delete_template(template_id)

AnnSpec == AnnInit /\ [][AnnNext]_vars

\* C21: every row a read returned, and every row a generation run went on to
\* use, was active when it was read.
C21_ReadsOnlyActive ==
    \A n \in DOMAIN read_log :
        \A i \in DOMAIN read_log[n].rows : read_log[n].rows[i].is_active

\* a template was soft-deleted and a read for its id has been answered
C21_Witness ==
    /\ ~templates[1].is_active
    /\ dup_call # NotRun /\ dup_call.op = "get_template"
    /\ dup_call.template_id = 1
    /\ response # NotRun /\ "status_code" \in DOMAIN response

\* the active segments of a template for a language and a position
C27_Records(template_id, language, segment_order) ==
    {i \in DOMAIN segments :
        /\ segments[i].is_active
        /\ segments[i].template_id = template_id
        /\ segments[i].language = language
        /\ segments[i].segment_order = segment_order}

\* C27: the active segments of a template hold at most one record for a
\* language and a position.
C27_OneRecordPerPosition ==
    \A i \in DOMAIN segments :
        Cardinality(C27_Records(segments[i].template_id, segments[i].language,
                                segments[i].segment_order)) <= 1

\* a second generate request for the template has been answered while the
\* task of the first was running
C27_Witness ==
    /\ dup_call # NotRun /\ dup_call.op = "generate_announcement_audio"
    /\ response # NotRun /\ "status_code" \in DOMAIN response
    /\ Len(background_tasks) >= 1
    /\ 1 \in DOMAIN tasks_run /\ tasks_run[1].state = "running"
    /\ dup_call.n >= 2

====
